---- MODULE Spec2Model ----
(***************************************************************************)
(* Component Catalog Subsystem of vibe-coding-platform:                    *)
(*   - the normalizer      (src/lib/xmcp/normalizer.ts)                     *)
(*   - the catalog store   (src/lib/xmcp/fake-server.ts)                    *)
(* Raw catalog data is decoded JSON; it is modelled as tagged values so    *)
(* that every typeof / Array.isArray / truthiness test of the code has a   *)
(* counterpart here.                                                       *)
(***************************************************************************)
EXTENDS Integers, Sequences, FiniteSets, TLC

(***************************************************************************)
(* Decoded JSON values.  Numbers carry their decimal spelling, so that     *)
(* String(n) is the spelling itself.  An object keeps its keys in          *)
(* insertion order (Object.entries order) next to the key -> value map.    *)
(***************************************************************************)
Undef == [t |-> "undefined"]

Null == [t |-> "null"]

Str(s) == [t |-> "string", v |-> s]

Num(s) == [t |-> "number", v |-> s]

Bool(b) == [t |-> "boolean", v |-> b]

Arr(seq) == [t |-> "array", v |-> seq]

Obj(keys, map) == [t |-> "object", keys |-> keys, v |-> map]

EmptyObj == Obj(<<>>, <<>>)

\* o.k : property read of a JSON value (undefined when absent)
Get(o, k) ==
  IF o.t = "object" /\ k \in DOMAIN o.v THEN o.v[k] ELSE Undef

\* a property read of null or undefined throws a TypeError
Nullish(x) == x.t \in {"undefined", "null"}

\* JavaScript truthiness, as used by `x || d`, `x ? a : b` and `!x`
Truthy(x) ==
  CASE x.t \in {"undefined", "null"} -> FALSE
    [] x.t = "string"  -> x.v # ""
    [] x.t = "number"  -> x.v \notin {"0", "NaN"}
    [] x.t = "boolean" -> x.v
    [] OTHER -> TRUE

\* a || b
OrElse(a, b) == IF Truthy(a) THEN a ELSE b

\* a ?? b
Coalesce(a, b) == IF Nullish(a) THEN b ELSE a

IsArray(x) == x.t = "array"

RECURSIVE JsString(_)
RECURSIVE JoinFrom(_, _)
\* Array.prototype.join(",") from index i on: null and undefined print as ""
JoinFrom(seq, i) ==
  IF i > Len(seq) THEN ""
  ELSE (IF Nullish(seq[i]) THEN "" ELSE JsString(seq[i]))
       \o (IF i < Len(seq) THEN "," ELSE "")
       \o JoinFrom(seq, i + 1)

\* String(x)
JsString(x) ==
  CASE x.t = "string"    -> x.v
    [] x.t = "number"    -> x.v
    [] x.t = "boolean"   -> IF x.v THEN "true" ELSE "false"
    [] x.t = "null"      -> "null"
    [] x.t = "undefined" -> "undefined"
    [] x.t = "array"     -> JoinFrom(x.v, 1)
    [] OTHER             -> "[object Object]"

\* Boolean(x)
ToBoolean(x) == Truthy(x)

(***************************************************************************)
(* Strings as sequences of characters, for the operations that look inside *)
(* a string: toLowerCase, includes, trim.                                  *)
(***************************************************************************)
UpperCase ==
  << "A", "B", "C", "D", "E", "F", "G", "H", "I", "J", "K", "L", "M",
     "N", "O", "P", "Q", "R", "S", "T", "U", "V", "W", "X", "Y", "Z" >>

LowerCase ==
  << "a", "b", "c", "d", "e", "f", "g", "h", "i", "j", "k", "l", "m",
     "n", "o", "p", "q", "r", "s", "t", "u", "v", "w", "x", "y", "z" >>

\* the characters of the string values that reach such an operation
Spelling(s) ==
  CASE s = ""         -> <<>>
    [] s = "Button"   -> <<"B", "u", "t", "t", "o", "n">>
    [] s = "button"   -> <<"b", "u", "t", "t", "o", "n">>
    [] s = "BUTTON"   -> <<"B", "U", "T", "T", "O", "N">>
    [] s = "Buton"    -> <<"B", "u", "t", "o", "n">>
    [] s = "Card"     -> <<"C", "a", "r", "d">>
    [] s = "car"      -> <<"c", "a", "r">>
    [] s = "Badge"    -> <<"B", "a", "d", "g", "e">>
    [] s = "Chip"     -> <<"C", "h", "i", "p">>
    [] s = "Input"    -> <<"I", "n", "p", "u", "t">>
    [] s = "A button" -> <<"A", " ", "b", "u", "t", "t", "o", "n">>
    [] s = "form"     -> <<"f", "o", "r", "m">>
    [] s = "Form"     -> <<"F", "o", "r", "m">>
    [] s = "for"      -> <<"f", "o", "r">>
    [] s = "action"   -> <<"a", "c", "t", "i", "o", "n">>
    [] s = "layout"   -> <<"l", "a", "y", "o", "u", "t">>
    [] s = "primary"  -> <<"p", "r", "i", "m", "a", "r", "y">>
    [] s = "PRIMARY"  -> <<"P", "R", "I", "M", "A", "R", "Y">>
    [] s = "ghost"    -> <<"g", "h", "o", "s", "t">>
    [] s = "@ui/core" -> <<"@", "u", "i", "/", "c", "o", "r", "e">>
    [] s = "@ui"      -> <<"@", "u", "i">>
    [] s = "@UI/core" -> <<"@", "U", "I", "/", "c", "o", "r", "e">>
    [] s = "@unknown/components" ->
         << "@", "u", "n", "k", "n", "o", "w", "n", "/",
            "c", "o", "m", "p", "o", "n", "e", "n", "t", "s" >>

\* s.toLowerCase(), on the characters of s
toLowerCase(chars) ==
  [i \in 1..Len(chars) |->
     IF \E k \in 1..Len(UpperCase) : UpperCase[k] = chars[i]
     THEN LowerCase[CHOOSE k \in 1..Len(UpperCase) : UpperCase[k] = chars[i]]
     ELSE chars[i]]

\* hay.includes(needle), on characters
includes(hay, needle) ==
  \E i \in 0..(Len(hay) - Len(needle)) : SubSeq(hay, i + 1, i + Len(needle)) = needle

(***************************************************************************)
(* Results of operations that may throw.                                   *)
(***************************************************************************)
Ok(val) == [ok |-> TRUE, value |-> val]

Fail(err) == [ok |-> FALSE, error |-> err]

TypeError == "TypeError"

InvalidComponentData == "Invalid component data"

(***************************************************************************)
(* Sequence helpers standing for Array.prototype.map / filter.             *)
(***************************************************************************)
\* indices of the elements of seq that satisfy Test, ascending
RECURSIVE FilterFrom(_, _, _)
FilterFrom(seq, Test(_), i) ==
  IF i > Len(seq) THEN <<>>
  ELSE (IF Test(seq[i]) THEN <<seq[i]>> ELSE <<>>) \o FilterFrom(seq, Test, i + 1)

\* `if (supplied) filtered = filtered.filter(Test)`: the value of filtered
\* after the statement
FilterIf(supplied, filtered, Test(_)) ==
  IF supplied THEN FilterFrom(filtered, Test, 1) ELSE filtered

\* seq.filter(Test)
Filter(seq, Test(_)) == FilterFrom(seq, Test, 1)

\* the property names of the model that are canonical array indices, ascending
IndexKeys == <<"0", "1", "2">>

IsIndexKey(k) == \E i \in 1..Len(IndexKeys) : IndexKeys[i] = k

\* OrdinaryOwnPropertyKeys: the order in which Object.entries, Object.keys and
\* spread visit the keys of an object whose keys were inserted in the given
\* order: array indices first, ascending, then the other strings as inserted
OwnKeys(inserted) ==
  LET Inserted(k) == \E i \in 1..Len(inserted) : inserted[i] = k
      NotIndex(k) == ~IsIndexKey(k)
  IN  Filter(IndexKeys, Inserted) \o Filter(inserted, NotIndex)

\* { ...a, ...b } for decoded JSON objects; a value that is not an object
\* spreads to no named key
ObjAssign(a, b) ==
  LET bb == IF b.t = "object" THEN b ELSE EmptyObj
      NotInA(k) == k \notin DOMAIN a.v
  IN  Obj(OwnKeys(a.keys \o Filter(bb.keys, NotInA)),
          [k \in (DOMAIN a.v) \cup (DOMAIN bb.v) |->
             IF k \in DOMAIN bb.v THEN bb.v[k] ELSE a.v[k]])

\* an object literal with the given <<key, value>> pairs, absent values left out
ObjOf(pairs) ==
  LET Present(pr) == pr[2] # Undef
      present == Filter(pairs, Present)
      idx == 1..Len(present)
  IN  Obj(OwnKeys([i \in idx |-> present[i][1]]),
          [k \in {present[i][1] : i \in idx} |->
             present[CHOOSE i \in idx : present[i][1] = k][2]])

(***************************************************************************)
(* The normalizer (src/lib/xmcp/normalizer.ts).                            *)
(***************************************************************************)
\* Variant of the schema in which name is optional like the other three
\* fields: C9 does not hold of it.
UnknownComponentSchema_NameOptional(data) ==
  /\ data.t = "object"
  /\ \A f \in {"name", "description", "package", "version"} :
        Get(data, f).t \in {"undefined", "string"}

\* UnknownComponentSchema.safeParse(data).success
UnknownComponentSchema(data) ==
  /\ data.t = "object"
  /\ Get(data, "name").t = "string"
  /\ \A f \in {"description", "package", "version"} :
        Get(data, f).t \in {"undefined", "string"}

\* normalizeProp: a ComponentProp, or null
normalizeProp(prop) ==
  IF ~Truthy(prop) \/ prop.t \notin {"object", "array"} THEN Null
  ELSE [ name        |-> JsString(OrElse(Get(prop, "name"), Str(""))),
         type        |-> JsString(OrElse(OrElse(Get(prop, "type"), Get(prop, "propType")),
                                         Str("any"))),
         required    |-> ToBoolean(Coalesce(Coalesce(Get(prop, "required"),
                                                     Get(prop, "isRequired")),
                                            Bool(TRUE))),
         default     |-> Coalesce(Get(prop, "default"), Get(prop, "defaultValue")),
         description |-> IF Truthy(Get(prop, "description"))
                         THEN Str(JsString(Get(prop, "description"))) ELSE Undef ]

NotNull(x) == x # Null

\* Variant of normalizeProps whose keyed-object branch keeps the key and drops
\* the config: C11 does not hold of it.
normalizeProps_KeyOnly(props) ==
  IF ~Truthy(props) THEN <<>>
  ELSE IF IsArray(props)
       THEN Filter([i \in 1..Len(props.v) |-> normalizeProp(props.v[i])], NotNull)
  ELSE IF props.t = "object"
       THEN Filter([i \in 1..Len(props.keys) |->
                      normalizeProp(Obj(<<"name">>, [name |-> Str(props.keys[i])]))],
                   NotNull)
  ELSE <<>>

\* normalizeProps: array form, keyed-object form, anything else gives []
normalizeProps(props) ==
  IF ~Truthy(props) THEN <<>>
  ELSE IF IsArray(props)
       THEN Filter([i \in 1..Len(props.v) |-> normalizeProp(props.v[i])], NotNull)
  ELSE IF props.t = "object"
       THEN Filter([i \in 1..Len(props.keys) |->
                      normalizeProp(ObjAssign(Obj(<<"name">>, [name |-> Str(props.keys[i])]),
                                              props.v[props.keys[i]]))],
                   NotNull)
  ELSE <<>>

\* normalizeStyle: a ComponentStyle, or undefined
normalizeStyle(style) ==
  IF ~Truthy(style) \/ style.t \notin {"object", "array"} THEN Undef
  ELSE [ type  |-> JsString(OrElse(Get(style, "type"), Str("css"))),
         entry |-> JsString(OrElse(Get(style, "entry"), Str("styles.css"))) ]

\* normalizeVariants: v.name on a null or undefined element throws
normalizeVariants(variants) ==
  IF ~Truthy(variants) \/ ~IsArray(variants) THEN Ok(<<>>)
  ELSE IF \E i \in 1..Len(variants.v) : Nullish(variants.v[i]) THEN Fail(TypeError)
  ELSE Ok([i \in 1..Len(variants.v) |->
             LET v == variants.v[i]
             IN  [ name        |-> JsString(OrElse(Get(v, "name"), Str(""))),
                   description |-> IF Truthy(Get(v, "description"))
                                   THEN Str(JsString(Get(v, "description"))) ELSE Undef,
                   props       |-> OrElse(Get(v, "props"), EmptyObj) ]])

\* normalizeAssets: a.path on a null or undefined element throws
normalizeAssets(assets) ==
  IF ~Truthy(assets) \/ ~IsArray(assets) THEN Ok(<<>>)
  ELSE IF \E i \in 1..Len(assets.v) : Nullish(assets.v[i]) THEN Fail(TypeError)
  ELSE Ok([i \in 1..Len(assets.v) |->
             LET a == assets.v[i]
             IN  [ path     |-> JsString(OrElse(Get(a, "path"), Str(""))),
                   contents |-> JsString(OrElse(Get(a, "contents"), Str(""))),
                   type     |-> IF Truthy(Get(a, "type"))
                                THEN Str(JsString(Get(a, "type"))) ELSE Undef ]])

\* array.map(String) when the value is an array, [] otherwise
StringList(x) ==
  IF IsArray(x) THEN [i \in 1..Len(x.v) |-> JsString(x.v[i])] ELSE <<>>

\* normalizeComponentSpec: Ok(spec), or the error it throws
normalizeComponentSpec(data) ==
  IF ~UnknownComponentSchema(data) THEN Fail(InvalidComponentData)
  ELSE LET variants == normalizeVariants(Get(data, "variants"))
           assets   == normalizeAssets(Get(data, "assets"))
           lang     == JsString(Get(data, "language"))
       IN  IF ~variants.ok THEN Fail(variants.error)
           ELSE IF ~assets.ok THEN Fail(assets.error)
           ELSE Ok([ name         |-> JsString(Get(data, "name")),
                     package      |-> JsString(OrElse(Get(data, "package"),
                                                      Str("@unknown/components"))),
                     version      |-> JsString(OrElse(Get(data, "version"), Str("1.0.0"))),
                     description  |-> JsString(OrElse(Get(data, "description"), Str(""))),
                     language     |-> IF lang \in {"tsx", "jsx"} THEN lang ELSE "tsx",
                     style        |-> normalizeStyle(Get(data, "style")),
                     props        |-> normalizeProps(Get(data, "props")),
                     variants     |-> variants.value,
                     code         |-> JsString(OrElse(Get(data, "code"), Str(""))),
                     assets       |-> assets.value,
                     tags         |-> StringList(Get(data, "tags")),
                     dependencies |-> StringList(Get(data, "dependencies")) ])

\* Variant of the list item that takes its description from the name: C6 does
\* not hold of it.
ListItemOf_WrongField(normalized) ==
  [ name        |-> normalized.name,
    description |-> normalized.name,
    package     |-> normalized.package,
    version     |-> normalized.version,
    style       |-> normalized.style,
    tags        |-> normalized.tags ]

\* the ComponentListItem built from a normalized component
ListItemOf(normalized) ==
  [ name        |-> normalized.name,
    description |-> normalized.description,
    package     |-> normalized.package,
    version     |-> normalized.version,
    style       |-> normalized.style,
    tags        |-> normalized.tags ]

\* normalizeComponentListItem: the list item, or null when normalization throws
normalizeComponentListItem(data) ==
  LET r == normalizeComponentSpec(data)
  IN  IF r.ok THEN ListItemOf(r.value) ELSE Null

\* normalizeComponentList: every item mapped, the nulls filtered out
normalizeComponentList(components) ==
  Filter([i \in 1..Len(components) |-> normalizeComponentListItem(components[i])], NotNull)

(***************************************************************************)
(* The query layer: filterComponents (normalizer.ts) and the request       *)
(* handlers of fake-server.ts after their `await getCatalog()`.  List      *)
(* items and components are the records the normalizer builds; requests    *)
(* are decoded JSON.                                                       *)
(***************************************************************************)
\* a JavaScript number that is an integer
NumOf(n) == [t |-> "number", v |-> ToString(n), n |-> n]

\* Array.prototype.slice(start, end)
slice(seq, start, end) ==
  LET len == Len(seq)
      Rel(k) == IF k < 0 THEN (IF len + k < 0 THEN 0 ELSE len + k)
                ELSE (IF k > len THEN len ELSE k)
  IN  SubSeq(seq, Rel(start) + 1, Rel(end))

\* the text test of filterComponents: name, description or a tag contains the
\* query, all in lower case
MatchesQuery(component, query) ==
  LET searchQuery == toLowerCase(Spelling(query.v))
  IN  \/ includes(toLowerCase(Spelling(component.name)), searchQuery)
      \/ includes(toLowerCase(Spelling(component.description)), searchQuery)
      \/ \E i \in 1..Len(component.tags) :
            includes(toLowerCase(Spelling(component.tags[i])), searchQuery)

\* component.tags?.some(tag => tags.includes(tag))
HasAnyTag(component, tags) ==
  \E i \in 1..Len(component.tags) :
    \E j \in 1..Len(tags.v) : tags.v[j] = Str(component.tags[i])

\* component.package === packageName
InPackage(component, packageName) == Str(component.package) = packageName

\* Variant of filterComponents whose tag test asks for every requested tag:
\* C19 does not hold of it.
filterComponents_AllTags(components, query, tags, packageName) ==
  LET ByQuery(c) == MatchesQuery(c, query)
      ByTags(c) == \A j \in 1..Len(tags.v) :
                     \E i \in 1..Len(c.tags) : tags.v[j] = Str(c.tags[i])
      ByPackage(c) == InPackage(c, packageName)
      byQuery == FilterIf(Truthy(query), components, ByQuery)
      byTags  == FilterIf(Truthy(tags) /\ Len(tags.v) > 0, byQuery, ByTags)
  IN  FilterIf(Truthy(packageName), byTags, ByPackage)

\* Variant of filterComponents whose package test accepts a substring, as
\* the copy of filterComponents in src/test-ai-mcp.js does: C20 does not hold
\* of it.
filterComponents_PackageIncludes(components, query, tags, packageName) ==
  LET ByQuery(c) == MatchesQuery(c, query)
      ByTags(c) == HasAnyTag(c, tags)
      ByPackage(c) == includes(Spelling(c.package), Spelling(packageName.v))
      byQuery == FilterIf(Truthy(query), components, ByQuery)
      byTags  == FilterIf(Truthy(tags) /\ Len(tags.v) > 0, byQuery, ByTags)
  IN  FilterIf(Truthy(packageName), byTags, ByPackage)

\* Variant of filterComponents whose package filter is applied to the whole
\* list and not to what the earlier filters kept: C18 does not hold of it.
filterComponents_PackageAlone(components, query, tags, packageName) ==
  LET ByQuery(c) == MatchesQuery(c, query)
      ByTags(c) == HasAnyTag(c, tags)
      ByPackage(c) == InPackage(c, packageName)
      byQuery == FilterIf(Truthy(query), components, ByQuery)
      byTags  == FilterIf(Truthy(tags) /\ Len(tags.v) > 0, byQuery, ByTags)
  IN  IF Truthy(packageName) THEN Filter(components, ByPackage) ELSE byTags

\* filterComponents(components, query, tags, packageName): the three filters
\* one after the other, each on what the one before kept
filterComponents(components, query, tags, packageName) ==
  LET ByQuery(c) == MatchesQuery(c, query)
      ByTags(c) == HasAnyTag(c, tags)
      ByPackage(c) == InPackage(c, packageName)
      byQuery == FilterIf(Truthy(query), components, ByQuery)
      byTags  == FilterIf(Truthy(tags) /\ Len(tags.v) > 0, byQuery, ByTags)
  IN  FilterIf(Truthy(packageName), byTags, ByPackage)

\* fakeListComponents, given the catalog getCatalog returned
fakeListComponents(catalog, request) ==
  LET filtered == filterComponents(catalog.listItems, Get(request, "query"),
                                   Get(request, "tags"), Get(request, "package"))
  IN  [items |-> filtered, total |-> Len(filtered)]

\* Variant of NameIs that compares the names as they are written: C21 does
\* not hold of it.
NameIs_CaseSensitive(c, name) == c.name = name

\* c.name.toLowerCase() === name.toLowerCase()
NameIs(c, name) == toLowerCase(Spelling(c.name)) = toLowerCase(Spelling(name))

\* Variant of IsSimilar that also takes a name starting with the same letter
\* for a near miss: C22 as amended does not hold of it.
IsSimilar_FirstLetter(c, name) ==
  LET a == toLowerCase(Spelling(c.name))
      b == toLowerCase(Spelling(name))
  IN  includes(a, b) \/ includes(b, a) \/ (Len(a) > 0 /\ Len(b) > 0 /\ a[1] = b[1])

\* the test of the "did you mean" filter: one lower-cased name contains the other
IsSimilar(c, name) ==
  LET a == toLowerCase(Spelling(c.name))
      b == toLowerCase(Spelling(name))
  IN  includes(a, b) \/ includes(b, a)

\* the largest number of suggestions
MaxSuggestions == 3

\* the Error thrown for a name no component has; suggestions are the names
\* its message lists after "Did you mean:"
NotFound(name, suggestions) ==
  [message |-> "Component not found", name |-> name, suggestions |-> suggestions]

\* code.replace(/defaultValue\s*=\s*['"`]([^'"`]+)['"`]/g, ...): the templates
\* of the model hold no `defaultValue = '...'`, so there is nothing to replace
ReplaceDefaultValues(code, props) ==
  CASE code \in {"", "export const Button"} -> code

\* fakeGetComponent, given the catalog getCatalog returned: Ok(response), or
\* the error it throws
fakeGetComponent(catalog, request) ==
  LET name == Get(request, "name").v
      variantName == Get(request, "variant")
      Named(c) == NameIs(c, name)
      Similar(c) == IsSimilar(c, name)
      HasVariantName(v) == NameIs(v, variantName.v)
      found == Filter(catalog.components, Named)
      similar == slice(Filter(catalog.listItems, Similar), 0, MaxSuggestions)
      Final(component, variants) ==
        IF Truthy(variantName) /\ Len(variants) > 0
        THEN [component EXCEPT !.code = ReplaceDefaultValues(@, variants[1].props)]
        ELSE component
      Found(component) ==
        Ok([component |-> Final(component, Filter(component.variants, HasVariantName))])
  IN  IF Len(found) = 0
      THEN Fail(NotFound(name, [i \in 1..Len(similar) |-> similar[i].name]))
      ELSE Found(found[1])

\* the limit searchComponents uses when options.limit is falsy
DefaultLimit == 50

\* searchComponents, given the catalog getCatalog returned
searchComponents(catalog, options) ==
  LET query     == Get(options, "query")
      tags      == Get(options, "tags")
      packages  == Get(options, "packages")
      languages == Get(options, "languages")
      HasTag(c) == HasAnyTag(c, tags)
      InPackages(c) == \E j \in 1..Len(packages.v) : packages.v[j] = Str(c.package)
      InLanguages(c) == \E j \in 1..Len(languages.v) : languages.v[j] = Str(c.language)
      languageNames == {c.name : c \in {catalog.components[i] :
                                          i \in {k \in 1..Len(catalog.components) :
                                                   InLanguages(catalog.components[k])}}}
      HasLanguage(c) == c.name \in languageNames
      byQuery == IF Truthy(query)
                 THEN filterComponents(catalog.listItems, query, Undef, Undef)
                 ELSE catalog.listItems
      byTags == FilterIf(Truthy(tags) /\ Len(tags.v) > 0, byQuery, HasTag)
      byPackages == FilterIf(Truthy(packages) /\ Len(packages.v) > 0, byTags, InPackages)
      byLanguages == FilterIf(Truthy(languages) /\ Len(languages.v) > 0,
                              byPackages, HasLanguage)
      \* the pagination, lines 331-342
      Paginate(filtered, total, offset, limit) ==
        [ items   |-> slice(filtered, offset, offset + limit),
          total   |-> total,
          hasMore |-> offset + limit < total ]
  IN  Paginate(byLanguages, Len(byLanguages),
               OrElse(Get(options, "offset"), NumOf(0)).n,
               OrElse(Get(options, "limit"), NumOf(DefaultLimit)).n)

\* the limit of the search route when the body has none
RouteDefaultLimit == 20

\* the largest limit the search route accepts
MaxLimit == 100

\* POST /api/xmcp/catalog/search for a request that is not a bot's, given the
\* catalog getCatalog returned
POST(catalog, body) ==
  LET Default(x, d) == IF x = Undef THEN d ELSE x
      \* lines 263-293, once the body is destructured
      Respond(limit, offset) ==
        LET Json(results) ==
              [ status  |-> 200,
                items   |-> results.items,
                total   |-> results.total,
                hasMore |-> results.hasMore,
                pagination |-> [ offset     |-> offset,
                                 limit      |-> limit,
                                 hasMore    |-> results.hasMore,
                                 nextOffset |-> IF results.hasMore
                                                THEN NumOf(offset.n + limit.n) ELSE Null ] ]
        IN  IF limit.n > MaxLimit
            THEN [status |-> 400, error |-> "Limit cannot exceed 100"]
            ELSE Json(searchComponents(catalog,
                   ObjOf(<< <<"query", Get(body, "query")>>, <<"tags", Get(body, "tags")>>,
                            <<"packages", Get(body, "packages")>>,
                            <<"languages", Get(body, "languages")>>,
                            <<"limit", limit>>, <<"offset", offset>> >>)))
  IN  Respond(Default(Get(body, "limit"), NumOf(RouteDefaultLimit)),
              Default(Get(body, "offset"), NumOf(0)))

(***************************************************************************)
(* Bounds of the model.                                                    *)
(***************************************************************************)
\* concurrent callers of the catalog store
NumProcs == 2

\* clock ticks in one behaviour
MaxTicks == 2

\* Date.now() when the module is loaded, in ms
StartNow == 1000

Procs == 1..NumProcs

CACHE_TTL == 5 * 60 * 1000

\* the clock is observed every half TTL: a snapshot is then half a TTL old
\* (still valid), exactly one TTL old (no longer valid), or older
TickStep == CACHE_TTL \div 2

(***************************************************************************)
(* Raw catalog entries, as they may stand in data/components-catalog.json. *)
(***************************************************************************)
RawButton ==
  Obj(<<"name", "description", "package", "version", "tags", "variants", "code">>,
      [ name        |-> Str("Button"),
        description |-> Str("A button"),
        package     |-> Str("@ui/core"),
        version     |-> Str("2.0.0"),
        tags        |-> Arr(<<Str("form"), Str("action")>>),
        variants    |-> Arr(<<Obj(<<"name", "props">>,
                                  [ name  |-> Str("primary"),
                                    props |-> Obj(<<"size">>, [size |-> Str("lg")]) ])>>),
        code        |-> Str("export const Button") ])

RawCard ==
  Obj(<<"name", "style", "tags">>,
      [ name  |-> Str("Card"),
        style |-> Obj(<<"type", "entry">>, [type |-> Str("scss"), entry |-> Str("card.scss")]),
        tags  |-> Arr(<<Str("layout")>>) ])

\* no name at all
RawNoName ==
  Obj(<<"description">>, [description |-> Str("anonymous")])

\* a name that is not a string
RawNumName ==
  Obj(<<"name">>, [name |-> Num("42")])

\* a string name, but a description that is a number
RawBadDescription ==
  Obj(<<"name", "description">>, [name |-> Str("Badge"), description |-> Num("7")])

\* a string name, but a null element in the variants array
RawNullVariant ==
  Obj(<<"name", "variants">>, [name |-> Str("Chip"), variants |-> Arr(<<Null>>)])

\* a second spelling of Button's name
RawLowerButton ==
  Obj(<<"name", "package", "tags">>,
      [name |-> Str("button"), package |-> Str("@ui/core"), tags |-> Arr(<<Str("action")>>)])

\* a name that is the empty string
RawEmptyName ==
  Obj(<<"name">>, [name |-> Str("")])

\* a string name, variants and assets that are not arrays
RawLoose ==
  Obj(<<"name", "variants", "assets", "tags">>,
      [ name     |-> Str("Input"),
        variants |-> Str("none"),
        assets   |-> Num("3"),
        tags     |-> Str("form") ])

Metadata(version) == Obj(<<"version">>, [version |-> Str(version)])

\* the metadata of a catalog without components
EmptyMetadata ==
  Obj(<<"version", "totalComponents", "packages", "tags">>,
      [ version         |-> Str("0.0.0"),
        totalComponents |-> Num("0"),
        packages        |-> Arr(<<>>),
        tags            |-> Arr(<<>>) ])

Catalog(items, metadata) ==
  Obj(<<"components", "metadata">>, [components |-> Arr(items), metadata |-> metadata])

(***************************************************************************)
(* The backing file: unreadable, not JSON, or a decoded JSON document.     *)
(***************************************************************************)
Unreadable == [readable |-> FALSE]

BadJson == [readable |-> TRUE, parses |-> FALSE]

JsonFile(doc) == [readable |-> TRUE, parses |-> TRUE, json |-> doc]

\* what the file may hold when it is read: a catalog with a bad entry among
\* good ones, a catalog none of whose entries normalizes, a document whose
\* components are not an array, text that is not JSON, or nothing readable
Files ==
  { JsonFile(Catalog(<<RawButton, RawNoName, RawCard>>, Metadata("1.2.0"))),
    JsonFile(Catalog(<<RawNumName, RawBadDescription, RawNullVariant>>, EmptyMetadata)),
    JsonFile(Obj(<<"components">>, [components |-> Str("none")])),
    BadJson,
    Unreadable }

\* the try block of loadCatalog: readFile, JSON.parse, the components check
TryLoadCatalog(f) ==
  IF ~f.readable THEN Fail("ENOENT")
  ELSE IF ~f.parses THEN Fail("SyntaxError")
  ELSE IF Nullish(f.json) THEN Fail(TypeError)
  ELSE IF ~Truthy(Get(f.json, "components")) \/ ~IsArray(Get(f.json, "components"))
       THEN Fail("Invalid catalog format: components must be an array")
  ELSE Ok(f.json)

\* the empty catalog of the catch block of loadCatalog
EmptyCatalog == Catalog(<<>>, EmptyMetadata)

\* Variant of loadCatalog without its catch block: C5 does not hold of it.
loadCatalog_NoCatch(f) == TryLoadCatalog(f)

\* loadCatalog: every failure of the try block is caught and replaced by the
\* empty catalog, so the returned promise never rejects
loadCatalog(f) ==
  LET r == TryLoadCatalog(f)
  IN  IF r.ok THEN r ELSE Ok(EmptyCatalog)

\* Variant of the loop without the inner try/catch, so that the first
\* component that throws ends the loop with what was collected so far: C8
\* does not hold of it.
RECURSIVE NormalizeLoop_Abort(_, _, _)
NormalizeLoop_Abort(raws, i, acc) ==
  IF i > Len(raws) THEN acc
  ELSE LET r == normalizeComponentSpec(raws[i])
       IN  IF r.ok
           THEN NormalizeLoop_Abort(raws, i + 1,
                  [ components |-> Append(acc.components, r.value),
                    listItems  |-> Append(acc.listItems, ListItemOf(r.value)) ])
           ELSE acc

\* the for loop of getCatalog over rawCatalog.components, from index i on:
\* a component that normalizes is pushed to both lists, one that throws is skipped
RECURSIVE NormalizeLoop(_, _, _)
NormalizeLoop(raws, i, acc) ==
  IF i > Len(raws) THEN acc
  ELSE LET r == normalizeComponentSpec(raws[i])
       IN  IF r.ok
           THEN NormalizeLoop(raws, i + 1,
                  [ components |-> Append(acc.components, r.value),
                    listItems  |-> Append(acc.listItems, ListItemOf(r.value)) ])
           ELSE NormalizeLoop(raws, i + 1, acc)

\* Variant of the snapshot that is not stamped with its load time when it is
\* built from the empty catalog of a failed load: C29 does not hold of it.
BuildSnapshot_Unstamped(rawCatalog, t) ==
  LET lists == NormalizeLoop(Get(rawCatalog, "components").v, 1,
                             [components |-> <<>>, listItems |-> <<>>])
  IN  [ components |-> lists.components,
        listItems  |-> lists.listItems,
        lastLoaded |-> IF rawCatalog = Catalog(<<>>, EmptyMetadata) THEN 0 ELSE t,
        metadata   |-> Get(rawCatalog, "metadata") ]

\* the object getCatalog assigns to catalogCache
BuildSnapshot(rawCatalog, t) ==
  LET lists == NormalizeLoop(Get(rawCatalog, "components").v, 1,
                             [components |-> <<>>, listItems |-> <<>>])
  IN  [ components |-> lists.components,
        listItems  |-> lists.listItems,
        lastLoaded |-> t,
        metadata   |-> Get(rawCatalog, "metadata") ]

\* Variant of the cache test with the comparison reversed: C3 does not hold
\* of it.
CacheValid_Reversed(h, cache, t) ==
  /\ cache # 0
  /\ h[cache].lastLoaded # 0
  /\ t - h[cache].lastLoaded >= CACHE_TTL

\* the cache test of getCatalog: catalogCache?.lastLoaded && now - lastLoaded < TTL
CacheValid(h, cache, t) ==
  /\ cache # 0
  /\ h[cache].lastLoaded # 0
  /\ t - h[cache].lastLoaded < CACHE_TTL

(***************************************************************************)
(* Snapshot objects live on the heap and are known by reference.  The      *)
(* references that exist are the module variable catalogCache and the      *)
(* value getCatalog returned to each caller; an object none of them        *)
(* reaches is garbage and its slot is free again.                          *)
(***************************************************************************)
HeapSlots == 1..(NumProcs + 1)

NoSnapshot == Undef

\* the object a fresh `{ ... }` literal evaluates to: the first free slot
NewRef(h) ==
  CHOOSE i \in HeapSlots : h[i] = NoSnapshot /\ \A j \in 1..(i - 1) : h[j] # NoSnapshot

\* Garbage collection: objects that neither catalogCache nor a caller refers
\* to are freed, and the live ones are moved to the front of the heap in the
\* order catalogCache, callers (the engine rewrites every reference when it
\* moves an object, so the program cannot tell).  Returns the heap and the
\* rewritten references.
Collect(h, cache, held) ==
  LET cand  == <<cache>> \o [p \in Procs |-> held[p]]
      First(i) == cand[i] # 0 /\ \A j \in 1..(i - 1) : cand[j] # cand[i]
      live  == Filter([i \in 1..Len(cand) |-> i], First)
      To(r) == IF r = 0 THEN 0 ELSE CHOOSE k \in 1..Len(live) : cand[live[k]] = r
  IN  [heap  |-> [k \in HeapSlots |-> IF k <= Len(live) THEN h[cand[live[k]]] ELSE NoSnapshot],
       cache |-> To(cache),
       held  |-> [p \in Procs |-> To(held[p])]]

\* Variant of the assignment that refills the stored object in place when
\* there is one: C7 does not hold of it.
StoreSnapshot_InPlace(h, cache, snap) ==
  IF cache # 0
  THEN [heap |-> [h EXCEPT ![cache] = snap], cache |-> cache]
  ELSE LET ref == NewRef(h)
       IN  [heap |-> [h EXCEPT ![ref] = snap], cache |-> ref]

\* catalogCache = { ... }: a new object is allocated and the module variable
\* is pointed at it; objects already handed out are left as they are
StoreSnapshot(h, cache, snap) ==
  LET ref == NewRef(h)
  IN  [heap |-> [h EXCEPT ![ref] = snap], cache |-> ref]

(***************************************************************************)
(* State of the catalog store and of its callers.                          *)
(***************************************************************************)
VARIABLES
  now,          \* Date.now()
  heap,         \* the snapshot objects, by reference
  catalogCache, \* the module variable: 0 for null, else a reference into heap
  pc,           \* where each caller stands in getCatalog
  startNow,     \* getCatalog's local `now`
  ret,          \* the reference getCatalog returned to the caller
  loadFailed,   \* whether the try block of the caller's last loadCatalog threw
  forced        \* clearCatalogCache has run and no getCatalog has started since

(***************************************************************************)
(* State of a direct use of the normalizer.                                *)
(***************************************************************************)
VARIABLES
  call,         \* the entry point that is called, "none" for none
  rawItem,      \* its argument, or the file it reads
  rawList,      \* the raw components of a batch normalization
  normalized    \* what the call produced

(***************************************************************************)
(* State of an XMCPClient and of the call it is making.                    *)
(***************************************************************************)
VARIABLES
  config,       \* this.config
  phase,        \* where the call stands: "idle", "fetching", "reading",
                \* "readingError", "done"
  timer,        \* the call's setTimeout: "none", "armed", "cleared", "fired"
  status,       \* response.status once the headers are in, 0 before
  body          \* what response.json() met once the body is in

storeVars == << now, heap, catalogCache, pc, startNow, ret,
                loadFailed, forced >>

normVars == << call, rawItem, rawList, normalized >>

clientVars == << config, phase, timer, status, body >>

vars == << now, heap, catalogCache, pc, startNow, ret,
           loadFailed, forced, call, rawItem, rawList, normalized,
           config, phase, timer, status, body >>

NoResult == Undef

StoreInit ==
  /\ now = StartNow
  /\ heap = [i \in HeapSlots |-> NoSnapshot]
  /\ catalogCache = 0
  /\ pc = [p \in Procs |-> "idle"]
  /\ startNow = [p \in Procs |-> 0]
  /\ ret = [p \in Procs |-> 0]
  /\ loadFailed = [p \in Procs |-> FALSE]
  /\ forced = FALSE

NormIdle ==
  /\ call = "none"
  /\ rawItem = Undef
  /\ rawList = <<>>
  /\ normalized = NoResult

\* DEFAULT_XMCP_CONFIG when MCP_ENABLED is not "false"
DEFAULT_XMCP_CONFIG == [enabled |-> TRUE, timeout |-> 10000]

\* no body has been read
NoBody == [received |-> FALSE]

\* a client as its constructor leaves it, making no call
ClientIdle ==
  /\ config = DEFAULT_XMCP_CONFIG
  /\ phase = "idle"
  /\ timer = "none"
  /\ status = 0
  /\ body = NoBody

Init ==
  /\ StoreInit
  /\ NormIdle
  /\ ClientIdle

\* getCatalog up to its first await: return the cache when it is still valid,
\* else call loadCatalog and suspend
EnterGetCatalog(p, cache) ==
  /\ pc[p] = "idle"
  /\ forced' = FALSE
  /\ IF CacheValid(heap, cache, now)
     THEN /\ pc' = [pc EXCEPT ![p] = "returned"]
          /\ ret' = [ret EXCEPT ![p] = cache]
          /\ UNCHANGED startNow
     ELSE /\ pc' = [pc EXCEPT ![p] = "loading"]
          /\ startNow' = [startNow EXCEPT ![p] = now]
          /\ UNCHANGED ret
  /\ UNCHANGED << now, loadFailed >>
  /\ UNCHANGED << normVars, clientVars >>

\* a caller (fakeListComponents, fakeGetComponent, searchComponents,
\* getCatalogInfo) calls getCatalog
GetCatalog(p) ==
  /\ EnterGetCatalog(p, catalogCache)
  /\ UNCHANGED << heap, catalogCache >>

\* the await of getCatalog completes: loadCatalog reads and parses the file
\* (which holds f at that moment) and settles, and getCatalog resumes in the
\* same drain of the microtask queue, so that no other request runs between
\* the two: it normalizes the raw catalog, assigns catalogCache, and returns it
ResumeGetCatalog(p, f) ==
  /\ pc[p] = "loading"
  /\ LET r == loadCatalog(f)
     IN  IF r.ok
         THEN LET st == StoreSnapshot(heap, catalogCache, BuildSnapshot(r.value, startNow[p]))
                  gc == Collect(st.heap, st.cache, [ret EXCEPT ![p] = st.cache])
              IN  /\ catalogCache' = gc.cache
                  /\ ret' = gc.held
                  /\ heap' = gc.heap
                  /\ pc' = [pc EXCEPT ![p] = "returned"]
         ELSE /\ pc' = [pc EXCEPT ![p] = "threw"]
              /\ UNCHANGED << heap, catalogCache, ret >>
  /\ startNow' = [startNow EXCEPT ![p] = 0]
  /\ loadFailed' = [loadFailed EXCEPT ![p] = ~TryLoadCatalog(f).ok]
  /\ UNCHANGED << now, forced >>
  /\ UNCHANGED << normVars, clientVars >>

\* the caller's continuation: it filters, looks up or copies from the snapshot
\* it obtained, assigns to none of its fields, and drops the reference
Release(p) ==
  /\ pc[p] \in {"returned", "threw"}
  /\ pc' = [pc EXCEPT ![p] = "idle"]
  /\ LET gc == Collect(heap, catalogCache, [ret EXCEPT ![p] = 0])
     IN  /\ heap' = gc.heap
         /\ catalogCache' = gc.cache
         /\ ret' = gc.held
  /\ loadFailed' = [loadFailed EXCEPT ![p] = FALSE]
  /\ UNCHANGED << now, startNow, forced >>
  /\ UNCHANGED << normVars, clientVars >>

\* clearCatalogCache
ClearCatalogCache ==
  /\ LET gc == Collect(heap, 0, ret)
     IN  /\ heap' = gc.heap
         /\ catalogCache' = gc.cache
         /\ ret' = gc.held
  /\ forced' = TRUE
  /\ UNCHANGED << now, pc, startNow, loadFailed >>
  /\ UNCHANGED << normVars, clientVars >>

\* dev.reloadCatalog when NODE_ENV is not "production": clearCatalogCache, then
\* getCatalog up to its await, in one synchronous run.  (In production the call
\* throws before it touches any state, which is a stuttering step.)
ReloadCatalog(p) ==
  /\ pc[p] = "idle"
  /\ LET gc == Collect(heap, 0, ret)
     IN  /\ heap' = gc.heap
         /\ catalogCache' = gc.cache
         /\ ret' = gc.held
  /\ forced' = FALSE
  /\ pc' = [pc EXCEPT ![p] = "loading"]
  /\ startNow' = [startNow EXCEPT ![p] = now]
  /\ UNCHANGED << now, loadFailed >>
  /\ UNCHANGED << normVars, clientVars >>

\* time passes
Tick ==
  /\ now + TickStep <= StartNow + MaxTicks * TickStep
  /\ now' = now + TickStep
  /\ UNCHANGED << heap, catalogCache, pc, startNow, ret,
                  loadFailed, forced >>
  /\ UNCHANGED << normVars, clientVars >>

Next ==
  \/ \E p \in Procs : GetCatalog(p)
  \/ \E p \in Procs, f \in Files : ResumeGetCatalog(p, f)
  \/ \E p \in Procs : Release(p)
  \/ ClearCatalogCache
  \/ \E p \in Procs : ReloadCatalog(p)
  \/ Tick

Spec == Init /\ [][Next]_vars

(***************************************************************************)
(* Direct calls of the normalizer on bounded sets of raw inputs.           *)
(***************************************************************************)
\* longest raw list given to a batch normalization
MaxListLen == 3

RawVariant ==
  Obj(<<"name", "props">>,
      [name |-> Str("primary"), props |-> Obj(<<"size">>, [size |-> Str("lg")])])

RawAsset ==
  Obj(<<"path", "contents">>, [path |-> Str("button.css"), contents |-> Str(".btn{}")])

NameChoices == {Undef, Null, Num("42"), Str(""), Str("Button")}

DescriptionChoices == {Undef, Null, Num("7"), Str("A button")}

PackageChoices == {Undef, Num("1"), Str("@ui/core")}

VersionChoices == {Undef, Num("2"), Str("2.0.0")}

VariantsChoices ==
  {Undef, Str("none"), Arr(<<Null>>), Arr(<<Str("primary")>>), Arr(<<RawVariant>>)}

AssetsChoices == {Undef, Num("3"), Arr(<<Null>>), Arr(<<RawAsset>>)}

\* raw values handed to normalizeComponentSpec: objects with every combination
\* of the fields above, and values that are not objects at all
RawInputs ==
  { ObjOf(<< <<"name", n>>, <<"description", d>>, <<"package", pk>>, <<"version", ver>>,
             <<"variants", vs>>, <<"assets", as>> >>) :
      n \in NameChoices, d \in DescriptionChoices, pk \in PackageChoices,
      ver \in VersionChoices, vs \in VariantsChoices, as \in AssetsChoices }
  \cup {Undef, Null, Str("Button"), Num("42"), Arr(<<Str("Button")>>)}

RawSamples ==
  {RawButton, RawCard, RawNoName, RawNumName, RawBadDescription, RawNullVariant, RawLoose,
   RawLowerButton, RawEmptyName}

RawLists == UNION {[1..n -> RawSamples] : n \in 0..MaxListLen}

\* longest list of props or variants given in two encodings
MaxEntries == 2

\* o without its key k
Without(o, k) ==
  LET Other(kk) == kk # k
  IN  Obj(Filter(o.keys, Other), [kk \in (DOMAIN o.v) \ {k} |-> o.v[kk]])

\* the sequences over S of length at most n whose elements have distinct names
NamedLists(S, n) ==
  { l \in UNION {[1..m -> S] : m \in 0..n} :
      \A i, j \in 1..Len(l) : i # j => Get(l[i], "name") # Get(l[j], "name") }

\* The keyed-object encoding of an array of named configs: each name is
\* mapped to the rest of the config, the keys inserted in the array's order.
KeyedEncoding(array) ==
  ObjOf([i \in 1..Len(array.v) |->
           << Get(array.v[i], "name").v, Without(array.v[i], "name") >>])

PropNames == {"size", "label", "1"}

\* prop configs without their name: canonical fields, alias fields, nothing
PropRests ==
  { EmptyObj,
    Obj(<<"type", "required", "default">>,
        [type |-> Str("string"), required |-> Bool(FALSE), default |-> Str("md")]),
    Obj(<<"propType", "isRequired", "defaultValue", "description">>,
        [propType |-> Str("number"), isRequired |-> Bool(TRUE),
         defaultValue |-> Num("0"), description |-> Str("how many")]) }

PropConfigs ==
  { ObjAssign(Obj(<<"name">>, [name |-> Str(n)]), rest) : n \in PropNames, rest \in PropRests }

\* props in the array encoding
PropArrays == { Arr(l) : l \in NamedLists(PropConfigs, MaxEntries) }

VariantNames == {"primary", "ghost"}

\* variant configs without their name
VariantRests ==
  { EmptyObj,
    Obj(<<"props">>, [props |-> Obj(<<"size">>, [size |-> Str("lg")])]),
    Obj(<<"description", "props">>,
        [description |-> Str("subtle"),
         props |-> Obj(<<"tone">>, [tone |-> Str("muted")])]) }

VariantConfigs ==
  { ObjAssign(Obj(<<"name">>, [name |-> Str(n)]), rest) :
      n \in VariantNames, rest \in VariantRests }

\* variants in the array encoding
VariantArrays == { Arr(l) : l \in NamedLists(VariantConfigs, MaxEntries) }

StyleTypeChoices ==
  {Undef, Null, Num("3"), Str(""), Str("scss"), Str("css"), Str("module"), Str("less"),
   Str("SCSS")}

StyleEntryChoices == {Undef, Str("card.scss")}

\* raw style objects
StyleInputs ==
  { ObjOf(<< <<"type", ty>>, <<"entry", en>> >>) :
      ty \in StyleTypeChoices, en \in StyleEntryChoices }

\* o with key from renamed to key to, in place
RenameKey(o, from, to) ==
  IF o.t # "object" \/ from \notin DOMAIN o.v THEN o
  ELSE Obj(OwnKeys([i \in 1..Len(o.keys) |-> IF o.keys[i] = from THEN to ELSE o.keys[i]]),
           [k \in ((DOMAIN o.v) \ {from}) \cup {to} |->
              IF k = to THEN o.v[from] ELSE o.v[k]])

\* a raw component that spells every concept with its canonical field name
RawCanonical ==
  Obj(<<"name", "description", "package", "version", "style", "props", "assets">>,
      [ name        |-> Str("Button"),
        description |-> Str("A button"),
        package     |-> Str("@ui/core"),
        version     |-> Str("2.0.0"),
        style       |-> Obj(<<"type", "entry">>,
                            [type |-> Str("scss"), entry |-> Str("button.scss")]),
        props       |-> Arr(<<Obj(<<"name", "type", "required", "default">>,
                                  [ name |-> Str("size"), type |-> Str("string"),
                                    required |-> Bool(FALSE), default |-> Str("md") ])>>),
        assets      |-> Arr(<<Obj(<<"path", "contents">>,
                                  [path |-> Str("button.css"), contents |-> Str(".btn{}")])>>) ])

\* the historical field names: where the field lives, its canonical name, its alias
Aliases ==
  { [in |-> "component", from |-> "package",     to |-> "pkg"],
    [in |-> "component", from |-> "version",     to |-> "ver"],
    [in |-> "component", from |-> "description", to |-> "desc"],
    [in |-> "props",     from |-> "required",    to |-> "isRequired"],
    [in |-> "props",     from |-> "default",     to |-> "defaultValue"],
    [in |-> "assets",    from |-> "contents",    to |-> "content"],
    [in |-> "assets",    from |-> "contents",    to |-> "data"],
    [in |-> "style",     from |-> "entry",       to |-> "entryPoint"],
    [in |-> "style",     from |-> "entry",       to |-> "main"] }

\* component with one concept supplied only under its alias
Aliased(component, al) ==
  LET Ren(o) == RenameKey(o, al.from, al.to)
      sub == Get(component, al.in)
  IN  CASE al.in = "component" -> Ren(component)
        [] al.in = "style" ->
             Obj(component.keys, [component.v EXCEPT !["style"] = Ren(sub)])
        [] OTHER ->
             Obj(component.keys,
                 [component.v EXCEPT ![al.in] = Arr([i \in 1..Len(sub.v) |-> Ren(sub.v[i])])])

\* a canonical raw component next to an aliased spelling of it
AliasPairs == { <<RawCanonical, Aliased(RawCanonical, al)>> : al \in Aliases }

NormInit ==
  /\ StoreInit
  /\ ClientIdle
  /\ normalized = NoResult
  /\ \/ call = "normalizeComponentSpec" /\ rawItem \in RawInputs /\ rawList = <<>>
     \/ call = "normalizeProps" /\ rawItem \in PropArrays /\ rawList = <<>>
     \/ call = "normalizeVariants" /\ rawItem \in VariantArrays /\ rawList = <<>>
     \/ call = "normalizeStyle" /\ rawItem \in StyleInputs /\ rawList = <<>>
     \/ call = "aliases" /\ rawItem = Undef /\ rawList \in AliasPairs
     \/ call \in {"normalizeComponentList", "getCatalog"}
          /\ rawItem = Undef /\ rawList \in RawLists

\* normalizeComponentSpec(rawItem)
CallNormalizeComponentSpec ==
  /\ call = "normalizeComponentSpec"
  /\ normalized = NoResult
  /\ normalized' = normalizeComponentSpec(rawItem)
  /\ UNCHANGED << call, rawItem, rawList >>
  /\ UNCHANGED << storeVars, clientVars >>

\* normalizeComponentList(rawList)
CallNormalizeComponentList ==
  /\ call = "normalizeComponentList"
  /\ normalized = NoResult
  /\ normalized' = Ok(normalizeComponentList(rawList))
  /\ UNCHANGED << call, rawItem, rawList >>
  /\ UNCHANGED << storeVars, clientVars >>

\* the normalization loop of getCatalog over a catalog holding rawList
CallBuildSnapshot ==
  /\ call = "getCatalog"
  /\ normalized = NoResult
  /\ normalized' = Ok(BuildSnapshot(Catalog(rawList, Metadata("1.2.0")), StartNow))
  /\ UNCHANGED << call, rawItem, rawList >>
  /\ UNCHANGED << storeVars, clientVars >>

\* normalizeProps of rawItem, an array of prop configs, and of its
\* keyed-object encoding
CallNormalizeProps ==
  /\ call = "normalizeProps"
  /\ normalized = NoResult
  /\ normalized' = Ok([ array |-> normalizeProps(rawItem),
                        keyed |-> normalizeProps(KeyedEncoding(rawItem)) ])
  /\ UNCHANGED << call, rawItem, rawList >>
  /\ UNCHANGED << storeVars, clientVars >>

\* normalizeVariants of rawItem, an array of variant configs, and of its
\* keyed-object encoding
CallNormalizeVariants ==
  /\ call = "normalizeVariants"
  /\ normalized = NoResult
  /\ normalized' = Ok([ array |-> normalizeVariants(rawItem),
                        keyed |-> normalizeVariants(KeyedEncoding(rawItem)) ])
  /\ UNCHANGED << call, rawItem, rawList >>
  /\ UNCHANGED << storeVars, clientVars >>

\* normalizeStyle(rawItem)
CallNormalizeStyle ==
  /\ call = "normalizeStyle"
  /\ normalized = NoResult
  /\ normalized' = Ok(normalizeStyle(rawItem))
  /\ UNCHANGED << call, rawItem, rawList >>
  /\ UNCHANGED << storeVars, clientVars >>

\* normalizeComponentSpec of a canonical raw component and of its aliased spelling
CallNormalizeAliased ==
  /\ call = "aliases"
  /\ normalized = NoResult
  /\ normalized' = Ok([ canonical |-> normalizeComponentSpec(rawList[1]),
                        aliased   |-> normalizeComponentSpec(rawList[2]) ])
  /\ UNCHANGED << call, rawItem, rawList >>
  /\ UNCHANGED << storeVars, clientVars >>

NormNext ==
  \/ CallNormalizeProps
  \/ CallNormalizeVariants
  \/ CallNormalizeStyle
  \/ CallNormalizeAliased
  \/ CallNormalizeComponentSpec
  \/ CallNormalizeComponentList
  \/ CallBuildSnapshot

SpecNorm == NormInit /\ [][NormNext]_vars

(***************************************************************************)
(* Requests to the query layer, over catalogs loaded from bounded raw      *)
(* lists: rawList is the raw catalog, rawItem the request, normalized the  *)
(* response.                                                               *)
(***************************************************************************)
\* largest offset requested
MaxOffset == 3

\* raw catalogs: none, the two-component one, one with a second spelling of
\* Button, one with an invalid entry and a component without tags
QueryCatalogs ==
  { <<>>,
    <<RawButton, RawCard>>,
    <<RawCard, RawLowerButton, RawButton>>,
    <<RawButton, RawNoName, RawLoose, RawCard>> }

\* raw catalogs for lookups by name: the ones above, one with four valid
\* components and one with a component whose name is empty
LookupCatalogs ==
  QueryCatalogs \cup { <<RawCard, RawLowerButton, RawButton, RawLoose>>,
                       <<RawEmptyName, RawButton>> }

\* GetComponentRequest values
GetRequests ==
  { ObjOf(<< <<"name", Str(n)>>, <<"variant", v>> >>) :
      n \in {"Button", "button", "BUTTON", "Buton", "car", "Chip", "A button", ""},
      v \in {Undef, Str(""), Str("PRIMARY"), Str("ghost")} }

QueryChoices == {Undef, Str(""), Str("car"), Str("BUTTON"), Str("form")}

TagsChoices ==
  { Undef, Arr(<<>>), Arr(<<Str("form")>>), Arr(<<Str("layout"), Str("form")>>),
    Arr(<<Str("Form")>>), Arr(<<Str("for")>>) }

PackageFilterChoices == {Undef, Str(""), Str("@ui/core"), Str("@ui"), Str("@UI/core")}

\* ListComponentsRequest values
ListRequests ==
  { ObjOf(<< <<"query", q>>, <<"tags", tg>>, <<"package", pk>> >>) :
      q \in QueryChoices, tg \in TagsChoices, pk \in PackageFilterChoices }

PackagesChoices == {Undef, Arr(<<Str("@ui/core")>>), Arr(<<Str("@ui")>>)}

LanguagesChoices == {Undef, Arr(<<Str("jsx")>>)}

LimitChoices == {Undef} \cup {NumOf(n) : n \in {0, 1, DefaultLimit, MaxLimit, MaxLimit + 1}}

OffsetChoices == {Undef} \cup {NumOf(n) : n \in 0..MaxOffset}

\* the options of searchComponents, which are also the bodies of the search route
SearchOptions ==
  { ObjOf(<< <<"query", q>>, <<"tags", tg>>, <<"packages", pks>>, <<"languages", ls>>,
             <<"limit", lim>>, <<"offset", off>> >>) :
      q \in {Undef, Str("car")},
      tg \in {Undef, Arr(<<Str("form")>>), Arr(<<Str("layout"), Str("form")>>)},
      pks \in PackagesChoices, ls \in LanguagesChoices,
      lim \in LimitChoices, off \in OffsetChoices }

QueryInit ==
  /\ StoreInit
  /\ ClientIdle
  /\ normalized = NoResult
  /\ \/ call = "fakeListComponents" /\ rawItem \in ListRequests
                                     /\ rawList \in QueryCatalogs
     \/ call \in {"searchComponents", "POST"} /\ rawItem \in SearchOptions
                                              /\ rawList \in QueryCatalogs
     \/ call = "fakeGetComponent" /\ rawItem \in GetRequests
                                   /\ rawList \in LookupCatalogs

\* the snapshot getCatalog returns to the handler: the cache is empty, so the
\* catalog is loaded and normalized
QueryCatalog == BuildSnapshot(Catalog(rawList, Metadata("1.2.0")), StartNow)

\* fakeListComponents(rawItem)
CallFakeListComponents ==
  /\ call = "fakeListComponents"
  /\ normalized = NoResult
  /\ normalized' = Ok(fakeListComponents(QueryCatalog, rawItem))
  /\ UNCHANGED << call, rawItem, rawList >>
  /\ UNCHANGED << storeVars, clientVars >>

\* searchComponents(rawItem), called directly
CallSearchComponents ==
  /\ call = "searchComponents"
  /\ normalized = NoResult
  /\ normalized' = Ok(searchComponents(QueryCatalog, rawItem))
  /\ UNCHANGED << call, rawItem, rawList >>
  /\ UNCHANGED << storeVars, clientVars >>

\* POST /api/xmcp/catalog/search with body rawItem
CallSearchRoute ==
  /\ call = "POST"
  /\ normalized = NoResult
  /\ normalized' = Ok(POST(QueryCatalog, rawItem))
  /\ UNCHANGED << call, rawItem, rawList >>
  /\ UNCHANGED << storeVars, clientVars >>

\* fakeGetComponent(rawItem)
CallFakeGetComponent ==
  /\ call = "fakeGetComponent"
  /\ normalized = NoResult
  /\ normalized' = fakeGetComponent(QueryCatalog, rawItem)
  /\ UNCHANGED << call, rawItem, rawList >>
  /\ UNCHANGED << storeVars, clientVars >>

QueryNext ==
  \/ CallFakeGetComponent
  \/ CallFakeListComponents
  \/ CallSearchComponents
  \/ CallSearchRoute

SpecQuery == QueryInit /\ [][QueryNext]_vars

(***************************************************************************)
(* Properties of the catalog store (checked under Spec).                   *)
(***************************************************************************)
\* the loadCatalog invocations that are in flight: every caller that waits
\* in "loading" has invoked loadCatalog itself
PendingLoads == {p \in Procs : pc[p] = "loading"}

\* C1: single-flight reload: get() calls that overlap at the asynchronous load
\* share one invocation of the backing loader, so at no moment is more than
\* one loadCatalog invocation in flight.
C1_SingleFlight == Cardinality(PendingLoads) <= 1

\* the stored snapshot is older than the TTL for a getCatalog that started at t
Expired(t) == t - heap[catalogCache].lastLoaded >= CACHE_TTL

\* C2: stale-on-error: when getCatalog resumes after a load that failed while
\* a snapshot with at least one component, older than the TTL, is stored, it
\* returns a snapshot value-equal to the stored one and the stored snapshot's
\* components stay as they were.
C2_StaleOnError ==
  [][\A p \in Procs :
       ( /\ pc[p] = "loading" /\ pc'[p] = "returned"
         /\ loadFailed'[p]
         /\ catalogCache # 0
         /\ heap[catalogCache].components # <<>>
         /\ Expired(startNow[p]) )
       => /\ heap'[ret'[p]].components = heap[catalogCache].components
          /\ heap'[ret'[p]].listItems = heap[catalogCache].listItems
          /\ heap'[catalogCache'].components = heap[catalogCache].components]_vars

\* C3: cache hit within the TTL: a getCatalog call that finds a stored snapshot
\* younger than CACHE_TTL returns that very snapshot object, starts no load,
\* and leaves the stored reference and every snapshot (its lastLoaded
\* included) as they were.  A step that enters getCatalog and keeps
\* catalogCache is a plain call (reloadCatalog clears the cache first).
C3_CacheHitWithinTTL ==
  [][\A p \in Procs :
       ( /\ pc[p] = "idle" /\ pc'[p] # "idle"
         /\ catalogCache # 0 /\ catalogCache' = catalogCache
         /\ now - heap[catalogCache].lastLoaded < CACHE_TTL )
       => /\ pc'[p] = "returned"
          /\ ret'[p] = catalogCache
          /\ heap' = heap]_vars

\* two callers hold the stored snapshot, which is younger than the TTL: every
\* load allocates its own object, so one of them was served from the cache
C3_Witness ==
  \E p, q \in Procs :
    /\ p # q
    /\ pc[p] = "returned" /\ pc[q] = "returned"
    /\ catalogCache # 0
    /\ ret[p] = catalogCache /\ ret[q] = catalogCache
    /\ heap[catalogCache].lastLoaded < now
    /\ now - heap[catalogCache].lastLoaded < CACHE_TTL

\* C4: invalidate() forces a reload: the first getCatalog that starts after
\* clearCatalogCache has run invokes the backing loader, also when another
\* getCatalog was suspended in its load while the cache was cleared.
C4_InvalidateForcesReload ==
  [][\A p \in Procs :
       (forced /\ pc[p] = "idle" /\ pc'[p] # "idle") => pc'[p] = "loading"]_vars

\* C5: getCatalog never raises to its caller: no call ends by throwing, a call
\* that has returned holds a snapshot object, and when no snapshot is stored
\* and the load failed, the snapshot it returns has no components and no
\* list items.
C5_GetNeverRaises ==
  /\ [](\A p \in Procs :
          /\ pc[p] # "threw"
          /\ pc[p] = "returned" => (ret[p] # 0 /\ heap[ret[p]] # NoSnapshot))
  /\ [][\A p \in Procs :
          ( /\ pc[p] = "loading" /\ pc'[p] = "returned"
            /\ loadFailed'[p]
            /\ catalogCache = 0 )
          => /\ heap'[ret'[p]].components = <<>>
             /\ heap'[ret'[p]].listItems = <<>>]_vars

\* a call whose load failed has returned the empty snapshot, and no other
\* snapshot exists
C5_Witness ==
  \E p \in Procs :
    /\ pc[p] = "returned"
    /\ loadFailed[p]
    /\ ret[p] # 0
    /\ heap[ret[p]].components = <<>>
    /\ heap[ret[p]].listItems = <<>>
    /\ \A i \in HeapSlots \ {ret[p]} : heap[i] = NoSnapshot

ListItemFields == {"name", "description", "package", "version", "style", "tags"}

\* item is the (name, description, package, version, style, tags) projection
\* of component
IsProjectionOf(item, component) ==
  /\ DOMAIN item = ListItemFields
  /\ item.name = component.name
  /\ item.description = component.description
  /\ item.package = component.package
  /\ item.version = component.version
  /\ item.style = component.style
  /\ item.tags = component.tags

FullyBuilt(snap) ==
  /\ Len(snap.listItems) = Len(snap.components)
  /\ \A i \in 1..Len(snap.components) :
        IsProjectionOf(snap.listItems[i], snap.components[i])

\* C6: snapshot consistency: the stored snapshot is absent or fully built, and
\* so is every snapshot a reader holds: listItems and components have equal
\* length and listItems[i] is the projection of components[i].
C6_SnapshotConsistency ==
  /\ catalogCache # 0 => heap[catalogCache] # NoSnapshot
  /\ \A i \in HeapSlots : heap[i] # NoSnapshot => FullyBuilt(heap[i])

\* a snapshot with two components is stored
C6_Witness ==
  /\ catalogCache # 0
  /\ Len(heap[catalogCache].components) = 2
  /\ heap[catalogCache].listItems[2].name = "Card"

\* C7: snapshot immutability for readers: as long as a caller holds the
\* snapshot getCatalog returned to it, no step (a reload by another getCatalog,
\* clearCatalogCache, reloadCatalog, another caller's continuation) changes
\* that object; a reload only points catalogCache at a new object.
C7_SnapshotImmutable ==
  [][\A p \in Procs :
       (ret[p] # 0 /\ ret'[p] # 0 /\ pc'[p] = pc[p]) => heap'[ret'[p]] = heap[ret[p]]]_vars

\* a reader still holds a snapshot that a later reload has replaced
C7_Witness ==
  \E p \in Procs :
    /\ pc[p] = "returned"
    /\ ret[p] # 0
    /\ catalogCache # 0
    /\ ret[p] # catalogCache
    /\ heap[ret[p]].components # heap[catalogCache].components

\* C28: snapshot freshness is monotonic under overlapping reloads: whenever
\* getCatalog replaces a stored snapshot by the one it has built, the new
\* snapshot's lastLoaded is not earlier than the replaced one's.
C28_FreshnessMonotonic ==
  [][\A p \in Procs :
       (pc[p] = "loading" /\ pc'[p] = "returned" /\ catalogCache # 0)
       => heap'[catalogCache'].lastLoaded >= heap[catalogCache].lastLoaded]_vars

\* the stored snapshot is the one getCatalog builds after a failed load, and
\* it is younger than the TTL
FallbackCached ==
  /\ catalogCache # 0
  /\ heap[catalogCache].components = <<>>
  /\ heap[catalogCache].listItems = <<>>
  /\ heap[catalogCache].metadata = EmptyMetadata
  /\ now - heap[catalogCache].lastLoaded < CACHE_TTL

ValidPositions == {i \in 1..Len(rawList) : normalizeComponentSpec(rawList[i]).ok}

\* the k-th valid position, counting from 1
KthValid(k) ==
  CHOOSE i \in ValidPositions : Cardinality({j \in ValidPositions : j < i}) = k - 1

\* out holds, in the original order, the value F gives for each valid position
HoldsExactlyValid(out, F(_)) ==
  /\ Len(out) = Cardinality(ValidPositions)
  /\ \A k \in 1..Len(out) : out[k] = F(normalizeComponentSpec(rawList[KthValid(k)]).value)

Same(x) == x

\* C8: batch normalization is partial-failure tolerant: the output of
\* normalizeComponentList, and the components and listItems getCatalog builds,
\* hold exactly the items whose own normalization succeeds, in their original
\* relative order; a failing item removes nothing else.
C8_BatchPartialFailure ==
  /\ (call = "normalizeComponentList" /\ normalized # NoResult)
       => HoldsExactlyValid(normalized.value, ListItemOf)
  /\ (call = "getCatalog" /\ normalized # NoResult)
       => /\ HoldsExactlyValid(normalized.value.components, Same)
          /\ HoldsExactlyValid(normalized.value.listItems, ListItemOf)

\* a batch whose first item fails and whose later items were kept
C8_Witness ==
  /\ call = "getCatalog"
  /\ normalized # NoResult
  /\ Len(rawList) = 3
  /\ 1 \notin ValidPositions
  /\ 3 \in ValidPositions
  /\ Len(normalized.value.components) >= 1

\* data is an object with a name that is a string
HasStringName(data) ==
  /\ data.t = "object"
  /\ "name" \in DOMAIN data.v
  /\ data.v["name"].t = "string"

\* C9: a raw item without a usable name (no name, or a name that is not a
\* string) makes normalizeComponentSpec fail with the schema error
\* "Invalid component data" (the missing-required-field failure) and no
\* component is returned.
C9_MissingNameFails ==
  (call = "normalizeComponentSpec" /\ normalized # NoResult /\ ~HasStringName(rawItem))
    => /\ ~normalized.ok
       /\ normalized.error = InvalidComponentData
       /\ "value" \notin DOMAIN normalized

\* an object whose name is a number, with otherwise well-formed fields, was rejected
C9_Witness ==
  /\ call = "normalizeComponentSpec"
  /\ normalized # NoResult
  /\ rawItem.t = "object"
  /\ Get(rawItem, "name") = Num("42")
  /\ Get(rawItem, "description") = Str("A button")
  /\ ~normalized.ok

\* C10: a missing name is the only fatal condition: every raw object with a
\* string name normalizes successfully, whatever its other fields hold.
C10_OnlyNameFatal ==
  (call = "normalizeComponentSpec" /\ normalized # NoResult /\ HasStringName(rawItem))
    => normalized.ok

\* no element of the array rawItem is named by an array index
NoIndexNames ==
  \A i \in 1..Len(rawItem.v) : ~IsIndexKey(Get(rawItem.v[i], "name").v)

\* C11: props encoding equivalence: for every array of prop configs and its
\* keyed-object encoding, normalizeProps yields the same Prop list, the same
\* elements in the same order.
C11_PropsEncodingEquivalence ==
  (call = "normalizeProps" /\ normalized # NoResult)
    => normalized.value.keyed = normalized.value.array

\* C11, amended: the equivalence holds when no prop is named by an array
\* index: Object.entries visits such keys first, in ascending order, whatever
\* the order in which they were inserted.
C11_PropsEncodingEquivalence_Amended ==
  (call = "normalizeProps" /\ normalized # NoResult /\ NoIndexNames)
    => normalized.value.keyed = normalized.value.array

\* two props, the second one spelled with alias fields, normalized alike from
\* both encodings
C11_Witness ==
  /\ call = "normalizeProps"
  /\ normalized # NoResult
  /\ NoIndexNames
  /\ Len(rawItem.v) = 2
  /\ Get(rawItem.v[2], "isRequired") = Bool(TRUE)
  /\ Len(normalized.value.keyed) = 2
  /\ normalized.value.keyed[1].name = "size"
  /\ normalized.value.keyed[2].name = "label"
  /\ normalized.value.keyed[2].type = "number"
  /\ normalized.value.keyed = normalized.value.array

\* C12: variants encoding equivalence: variants given as a keyed object
\* (variant name to config) normalize to the same ordered Variant list as the
\* equivalent array of objects.
C12_VariantsEncodingEquivalence ==
  (call = "normalizeVariants" /\ normalized # NoResult)
    => normalized.value.keyed = normalized.value.array

StyleTypes == {"scss", "css", "module"}

\* C13: the style type is restricted to the enum {scss, css, module}: every
\* raw style object normalizes to a style whose type is one of the three, and
\* a raw type outside the enum normalizes to "css".
C13_StyleTypeEnum ==
  (call = "normalizeStyle" /\ normalized # NoResult)
    => /\ normalized.value # Undef
       /\ normalized.value.type \in StyleTypes
       /\ (Get(rawItem, "type") \notin {Str(ty) : ty \in StyleTypes})
            => normalized.value.type = "css"

\* C14: field aliasing: a raw component that supplies one concept only under
\* its historical alias normalizes to the same ComponentSpec as the one that
\* supplies it under the canonical field name.
C14_FieldAliasing ==
  (call = "aliases" /\ normalized # NoResult)
    => normalized.value.aliased = normalized.value.canonical

\* c.name.toLowerCase() === name.toLowerCase(), the test of fakeGetComponent
SameNameIgnoringCase(a, b) == toLowerCase(Spelling(a)) = toLowerCase(Spelling(b))

\* C15: name identity: in every snapshot getCatalog builds, component names
\* are non-empty and no two components have names that are equal after
\* lower-casing.
C15_NameIdentity ==
  (call = "getCatalog" /\ normalized # NoResult)
    => LET components == normalized.value.components
       IN  /\ \A i \in 1..Len(components) : components[i].name # ""
           /\ \A i, j \in 1..Len(components) :
                 i # j => ~SameNameIgnoringCase(components[i].name, components[j].name)

(***************************************************************************)
(* Properties of the query layer (checked under SpecQuery).                *)
(***************************************************************************)
Answered(entry) == call = entry /\ normalized # NoResult

\* the request field is present, not an empty string and not an empty list
Supplied(field) ==
  LET x == Get(rawItem, field)
  IN  Truthy(x) /\ (IsArray(x) => Len(x.v) > 0)

\* C16: page-size cap: a search whose limit is greater than 100 fails and
\* returns no items, through the route and through a direct call of
\* searchComponents alike.
C16_PageSizeCap ==
  ( /\ Answered("searchComponents") \/ Answered("POST")
    /\ Get(rawItem, "limit") # Undef
    /\ Get(rawItem, "limit").n > MaxLimit )
  => /\ call = "POST" => normalized.value.status = 400
     /\ "items" \notin DOMAIN normalized.value

TagSet(c) == {c.tags[i] : i \in 1..Len(c.tags)}

Requested(field) == {Get(rawItem, field).v[j].v : j \in 1..Len(Get(rawItem, field).v)}

\* the component named like the list item has one of the requested languages
LanguageRequested(c) ==
  \E i \in 1..Len(QueryCatalog.components) :
    /\ QueryCatalog.components[i].name = c.name
    /\ QueryCatalog.components[i].language \in Requested("languages")

\* c satisfies every filter the list request supplies
SatisfiesListRequest(c) ==
  /\ Supplied("query") => MatchesQuery(c, Get(rawItem, "query"))
  /\ Supplied("tags") => TagSet(c) \cap Requested("tags") # {}
  /\ Supplied("package") => c.package = Get(rawItem, "package").v

\* c satisfies every filter the search options supply
SatisfiesSearchOptions(c) ==
  /\ Supplied("query") => MatchesQuery(c, Get(rawItem, "query"))
  /\ Supplied("tags") => TagSet(c) \cap Requested("tags") # {}
  /\ Supplied("packages") => c.package \in Requested("packages")
  /\ Supplied("languages") => LanguageRequested(c)

\* the elements of list at the 0-based positions [offset, offset + limit)
Page(list, offset, limit) ==
  LET rest == Len(list) - offset
      n == IF rest < 0 THEN 0 ELSE IF rest < limit THEN rest ELSE limit
  IN  [k \in 1..n |-> list[offset + k]]

\* the offset and the limit of the request, with the defaults only for the
\* ones that are not supplied
OffsetOrDefault == IF Get(rawItem, "offset") = Undef THEN 0 ELSE Get(rawItem, "offset").n

LimitOrDefault ==
  IF Get(rawItem, "limit") = Undef THEN DefaultLimit ELSE Get(rawItem, "limit").n

\* C17: pagination result: for every offset >= 0 and limit in 0..100, absent
\* ones defaulting to 0 and 50, searchComponents returns total = the number of
\* items that pass the filters, items = the ones at positions
\* [offset, offset + limit), and hasMore = (offset + limit < total).
C17_Pagination ==
  (Answered("searchComponents") /\ LimitOrDefault <= MaxLimit)
  => LET filtered == Filter(QueryCatalog.listItems, SatisfiesSearchOptions)
     IN  /\ normalized.value.total = Len(filtered)
         /\ normalized.value.items = Page(filtered, OffsetOrDefault, LimitOrDefault)
         /\ normalized.value.hasMore = (OffsetOrDefault + LimitOrDefault < Len(filtered))

\* C18: filters compose with logical AND and keep the load order: the items
\* fakeListComponents and (without paging) searchComponents return are exactly
\* the list items of the snapshot, in load order, that satisfy every supplied
\* filter; an absent filter excludes nothing.
C18_FiltersComposeAnd ==
  /\ Answered("fakeListComponents")
       => /\ normalized.value.items = Filter(QueryCatalog.listItems, SatisfiesListRequest)
          /\ normalized.value.total = Len(normalized.value.items)
  /\ (Answered("searchComponents") /\ ~Supplied("limit") /\ ~Supplied("offset"))
       => normalized.value.items = Filter(QueryCatalog.listItems, SatisfiesSearchOptions)

\* query, tags and package all supplied, some item kept and some item that
\* passes two of the three filters dropped
C18_Witness ==
  /\ Answered("fakeListComponents")
  /\ Supplied("query") /\ Supplied("tags") /\ Supplied("package")
  /\ Len(rawList) = 3
  /\ Len(normalized.value.items) = 1
  /\ normalized.value.items[1].name = "Button"
  /\ \E i \in 1..Len(QueryCatalog.listItems) :
        LET c == QueryCatalog.listItems[i]
        IN  /\ MatchesQuery(c, Get(rawItem, "query"))
            /\ c.package = Get(rawItem, "package").v
            /\ TagSet(c) \cap Requested("tags") = {}

\* only the tag filter is supplied
OnlyTags(entry) ==
  /\ Answered(entry)
  /\ Supplied("tags")
  /\ \A f \in {"query", "package", "packages", "languages", "limit", "offset"} : ~Supplied(f)

\* C19: the tag filter has ANY semantics: a component passes if and only if
\* at least one of its tags equals at least one requested tag.
C19_TagFilterAny ==
  (OnlyTags("fakeListComponents") \/ OnlyTags("searchComponents"))
  => \A i \in 1..Len(QueryCatalog.listItems) :
       LET c == QueryCatalog.listItems[i]
       IN  (\E k \in 1..Len(normalized.value.items) : normalized.value.items[k] = c)
             <=> (\E t \in TagSet(c) : t \in Requested("tags"))

\* two tags requested: Card, which has only one of them, passes, and Input,
\* which has no tags, does not
C19_Witness ==
  /\ OnlyTags("fakeListComponents")
  /\ Requested("tags") = {"layout", "form"}
  /\ \E k \in 1..Len(normalized.value.items) :
        /\ normalized.value.items[k].name = "Card"
        /\ TagSet(normalized.value.items[k]) = {"layout"}
  /\ \E i \in 1..Len(QueryCatalog.listItems) :
        /\ QueryCatalog.listItems[i].name = "Input"
        /\ QueryCatalog.listItems[i].tags = <<>>
  /\ \A k \in 1..Len(normalized.value.items) : normalized.value.items[k].name # "Input"

\* only the package filter is supplied
OnlyPackage(entry, field) ==
  /\ Answered(entry)
  /\ Supplied(field)
  /\ \A f \in {"query", "tags", "package", "packages", "languages", "limit", "offset"} \ {field} :
        ~Supplied(f)

validateCatalog_StopAtFirst(f) ==
  LET raws == Get(loadCatalog(f).value, "components").v
      Passes(i) == \A j \in 1..i : normalizeComponentSpec(raws[j]).ok
      valid == Filter([i \in 1..Len(raws) |-> i], Passes)
      failed == Len(valid) < Len(raws)
  IN  [ total   |-> Len(raws),
        valid   |-> Len(valid),
        invalid |-> IF failed THEN 1 ELSE 0,
        errors  |-> IF failed
                    THEN << [ component |-> Len(valid),
                              message   |-> normalizeComponentSpec(raws[Len(valid) + 1]).error ] >>
                    ELSE <<>> ]

\* dev.validateCatalog: loadCatalog, then normalizeComponentSpec on every raw
\* component; an error is `Component ${i}: ${message}` with i counted from 0
validateCatalog(f) ==
  LET raws == Get(loadCatalog(f).value, "components").v
      Passes(i) == normalizeComponentSpec(raws[i]).ok
      Throws(i) == ~normalizeComponentSpec(raws[i]).ok
      valid == Filter([i \in 1..Len(raws) |-> i], Passes)
      invalid == Filter([i \in 1..Len(raws) |-> i], Throws)
  IN  [ total   |-> Len(raws),
        valid   |-> Len(valid),
        invalid |-> Len(invalid),
        errors  |-> [k \in 1..Len(invalid) |->
                       [ component |-> invalid[k] - 1,
                         message   |-> normalizeComponentSpec(raws[invalid[k]]).error ]] ]

\* what the file may hold when dev.validateCatalog reads it
DevFiles == Files \cup {JsonFile(Catalog(l, Metadata("1.2.0"))) : l \in RawLists}

\* how old the stored snapshot may be: new, half a TTL, a whole TTL (expired)
Ages == {0, TickStep, CACHE_TTL}

\* the store as getCatalog calls have left it: nothing stored, or the snapshot
\* of one of the files, new, still valid or expired, and no call under way
DevInit ==
  /\ pc = [p \in Procs |-> "idle"]
  /\ startNow = [p \in Procs |-> 0]
  /\ ret = [p \in Procs |-> 0]
  /\ loadFailed = [p \in Procs |-> FALSE]
  /\ forced = FALSE
  /\ \/ /\ catalogCache = 0
        /\ heap = [i \in HeapSlots |-> NoSnapshot]
        /\ now = StartNow
     \/ /\ catalogCache = 1
        /\ heap \in { [i \in HeapSlots |->
                         IF i = 1 THEN BuildSnapshot(loadCatalog(g).value, StartNow)
                         ELSE NoSnapshot] : g \in Files }
        /\ now \in {StartNow + age : age \in Ages}
  /\ call = "validateCatalog"
  /\ rawItem \in DevFiles
  /\ rawList = <<>>
  /\ normalized = NoResult
  /\ ClientIdle

\* dev.validateCatalog(): it reads the file and normalizes; catalogCache is
\* neither read nor assigned
ValidateCatalog ==
  /\ call = "validateCatalog"
  /\ normalized = NoResult
  /\ normalized' = Ok(validateCatalog(rawItem))
  /\ UNCHANGED << call, rawItem, rawList >>
  /\ UNCHANGED << storeVars, clientVars >>

DevNext == ValidateCatalog

SpecDev == DevInit /\ [][DevNext]_vars

\* the stored snapshot: none, or its content and load time
Stored == IF catalogCache = 0 THEN NoSnapshot ELSE heap[catalogCache]

\* the raw components of the file validateCatalog read, none when the load fails
RawItems ==
  IF TryLoadCatalog(rawItem).ok THEN Get(rawItem.json, "components").v ELSE <<>>

\* C27: validateCatalog is a dry run: it leaves the stored snapshot and its
\* lastLoaded as they were, whether a snapshot is stored, absent or expired,
\* and its result has valid + invalid = total = the number of raw items, with
\* exactly one error message for each invalid item.
C27_ValidateCatalogDryRun ==
  [][(call = "validateCatalog" /\ normalized = NoResult /\ normalized' # NoResult)
     => /\ catalogCache' = catalogCache
        /\ Stored' = Stored
        /\ heap' = heap
        /\ normalized'.ok
        /\ LET result == normalized'.value
               bad == {i \in 1..Len(RawItems) : ~normalizeComponentSpec(RawItems[i]).ok}
           IN  /\ result.total = Len(RawItems)
               /\ result.valid + result.invalid = result.total
               /\ result.invalid = Cardinality(bad)
               /\ Len(result.errors) = result.invalid
               /\ {result.errors[k].component + 1 : k \in 1..Len(result.errors)} = bad]_vars

\* validateCatalog has answered for a file with a valid and two invalid
\* components while an expired snapshot is stored
C27_Witness ==
  /\ Answered("validateCatalog")
  /\ catalogCache # 0
  /\ now - heap[catalogCache].lastLoaded >= CACHE_TTL
  /\ Len(heap[catalogCache].components) = 2
  /\ normalized.value.total = 3
  /\ normalized.value.valid = 1
  /\ Len(normalized.value.errors) = 2

(***************************************************************************)
(* Configuration (src/lib/xmcp/config.ts).  process.env is an object whose *)
(* values are strings; a variable that is not set is an absent key.  A     *)
(* configuration object may hold a key whose value is undefined, which     *)
(* Object.assign copies like any other.                                    *)
(***************************************************************************)
NaN == Num("NaN")

\* parseInt(s, 10), for the values of MCP_TIMEOUT tried
parseInt(s) ==
  CASE s = "5000" -> NumOf(5000)
    [] s = "20s"  -> NumOf(20)
    [] s = "abc"  -> NaN

loadXMCPConfigFromEnv(env) ==
  Obj(<<"baseUrl", "authToken", "enabled", "timeout">>,
      [ baseUrl   |-> OrElse(Get(env, "MCP_BASE_URL"), Get(env, "NEXT_PUBLIC_MCP_BASE_URL")),
        authToken |-> Get(env, "MCP_AUTH_TOKEN"),
        enabled   |-> Bool(Get(env, "MCP_ENABLED") # Str("false")),
        timeout   |-> IF Truthy(Get(env, "MCP_TIMEOUT"))
                      THEN parseInt(Get(env, "MCP_TIMEOUT").v) ELSE Undef ])

createDevelopmentConfig ==
  Obj(<<"baseUrl", "enabled", "timeout">>,
      [ baseUrl |-> Str("http://localhost:3000/api/xmcp"),
        enabled |-> Bool(TRUE),
        timeout |-> NumOf(10000) ])

\* the presets, built from process.env when the module is loaded
XMCP_CONFIG_PRESETS(env) ==
  [ development |-> createDevelopmentConfig,
    staging |->
      Obj(<<"baseUrl", "authToken", "enabled", "timeout">>,
          [ baseUrl   |-> OrElse(Get(env, "MCP_STAGING_URL"),
                                 Str("https://staging-mcp.example.com")),
            authToken |-> Get(env, "MCP_STAGING_TOKEN"),
            enabled   |-> Bool(TRUE),
            timeout   |-> NumOf(12000) ]),
    production |->
      Obj(<<"baseUrl", "authToken", "enabled", "timeout">>,
          [ baseUrl   |-> OrElse(Get(env, "MCP_PRODUCTION_URL"), Str("https://mcp.example.com")),
            authToken |-> Get(env, "MCP_PRODUCTION_TOKEN"),
            enabled   |-> Bool(TRUE),
            timeout   |-> NumOf(15000) ]) ]

\* configs.reduce((acc, config) => Object.assign(acc, config), {}) from index i on
RECURSIVE AssignAll(_, _, _)
AssignAll(acc, configs, i) ==
  IF i > Len(configs) THEN acc ELSE AssignAll(ObjAssign(acc, configs[i]), configs, i + 1)

\* Object.assign(acc, config) for every config, then the defaults of the
\* fields that are missing
mergeXMCPConfigs(configs) ==
  LET merged == AssignAll(EmptyObj, configs, 1)
  IN  Obj(<<"baseUrl", "enabled", "timeout", "authToken">>,
          [ baseUrl   |-> OrElse(Get(merged, "baseUrl"), Str("http://localhost:3000/api/xmcp")),
            enabled   |-> Coalesce(Get(merged, "enabled"), Bool(TRUE)),
            timeout   |-> Coalesce(Get(merged, "timeout"), NumOf(10000)),
            authToken |-> Get(merged, "authToken") ])

\* the preset getEnvironmentConfig picks for NODE_ENV
PresetFor(env) ==
  LET nodeEnv == OrElse(Get(env, "NODE_ENV"), Str("development")).v
  IN  IF nodeEnv = "production" THEN XMCP_CONFIG_PRESETS(env).production
      ELSE IF nodeEnv = "test" THEN XMCP_CONFIG_PRESETS(env).staging
      ELSE XMCP_CONFIG_PRESETS(env).development

getEnvironmentConfig(env) ==
  mergeXMCPConfigs(<<PresetFor(env), loadXMCPConfigFromEnv(env)>>)

\* process.env: every combination of the variables being unset or set
Environments ==
  { ObjOf(<< <<"NODE_ENV", e>>, <<"MCP_TIMEOUT", t>>, <<"MCP_ENABLED", en>>,
             <<"MCP_BASE_URL", u>>, <<"MCP_AUTH_TOKEN", tok>>,
             <<"MCP_PRODUCTION_URL", pu>>, <<"MCP_PRODUCTION_TOKEN", pt>> >>) :
      e \in {Undef, Str("production"), Str("test"), Str("development")},
      t \in {Undef, Str(""), Str("5000"), Str("20s"), Str("abc")},
      en \in {Undef, Str("false"), Str("true")},
      u \in {Undef, Str("https://mcp.internal")},
      tok \in {Undef, Str("env-token-0123456789")},
      pu \in {Undef, Str("https://mcp.prod")},
      pt \in {Undef, Str("prod-token-0123456789")} }

ConfigInit ==
  /\ StoreInit
  /\ ClientIdle
  /\ call = "getEnvironmentConfig"
  /\ rawItem \in Environments
  /\ rawList = <<>>
  /\ normalized = NoResult

\* getEnvironmentConfig() under the environment rawItem
CallGetEnvironmentConfig ==
  /\ call = "getEnvironmentConfig"
  /\ normalized = NoResult
  /\ normalized' = Ok(getEnvironmentConfig(rawItem))
  /\ UNCHANGED << call, rawItem, rawList >>
  /\ UNCHANGED << storeVars, clientVars >>

ConfigNext == CallGetEnvironmentConfig

SpecConfig == ConfigInit /\ [][ConfigNext]_vars

\* the environment variable is not set
Unset(variable) == Get(rawItem, variable) = Undef

\* C30: environment timeout default: with MCP_TIMEOUT unset,
\* getEnvironmentConfig yields timeout 15000 in production and 10000 in
\* development, and no unset environment variable overrides the value the
\* preset has for timeout, authToken or baseUrl.
C30_EnvironmentTimeoutDefault ==
  Answered("getEnvironmentConfig") =>
    LET merged == normalized.value
        preset == PresetFor(rawItem)
    IN  /\ (Get(rawItem, "NODE_ENV") = Str("production") /\ Unset("MCP_TIMEOUT"))
             => Get(merged, "timeout") = NumOf(15000)
        /\ (Get(rawItem, "NODE_ENV") \in {Undef, Str("development")} /\ Unset("MCP_TIMEOUT"))
             => Get(merged, "timeout") = NumOf(10000)
        /\ Unset("MCP_TIMEOUT") => Get(merged, "timeout") = Get(preset, "timeout")
        /\ Unset("MCP_AUTH_TOKEN") => Get(merged, "authToken") = Get(preset, "authToken")
        /\ (Unset("MCP_BASE_URL") /\ Unset("NEXT_PUBLIC_MCP_BASE_URL"))
             => Get(merged, "baseUrl") = Get(preset, "baseUrl")

(***************************************************************************)
(* The remote client (src/lib/xmcp/client.ts): one XMCPClient making one   *)
(* listComponents or getComponent call at a time against a provider that   *)
(* answers, fails or stalls as it pleases.  `call` is the method, rawItem  *)
(* its request and normalized how the call settled.                        *)
(***************************************************************************)
\* new XMCPClientError(code, message): the message is left out
XMCPClientError(code) == [name |-> "XMCPClientError", code |-> code]

\* what Schema.parse(request) throws: a ZodError has issues, and no code
ZodError == [name |-> "ZodError"]

\* z.string().optional()
OptionalString(x) == x.t \in {"undefined", "string"}

\* z.array(z.string()).optional()
OptionalStrings(x) ==
  x = Undef \/ (IsArray(x) /\ \A i \in 1..Len(x.v) : x.v[i].t = "string")

\* the fields of data a z.object schema with these keys keeps, in the order
\* of the schema
Strip(data, keys) ==
  ObjOf([i \in 1..Len(keys) |-> <<keys[i], Get(data, keys[i])>>])

\* ListComponentsRequestSchema.parse(request) does not throw
ListComponentsRequestSchema(request) ==
  /\ request.t = "object"
  /\ OptionalString(Get(request, "query"))
  /\ OptionalStrings(Get(request, "tags"))
  /\ OptionalString(Get(request, "package"))

\* GetComponentRequestSchema.parse(request) does not throw
GetComponentRequestSchema(request) ==
  /\ request.t = "object"
  /\ Get(request, "name").t = "string"
  /\ OptionalString(Get(request, "variant"))

\* ComponentStyleSchema.optional()
ComponentStyleSchema(style) ==
  \/ style = Undef
  \/ /\ style.t = "object"
     /\ Get(style, "type") \in {Str("scss"), Str("css"), Str("module")}
     /\ Get(style, "entry").t = "string"

ComponentListItemSchema(item) ==
  /\ item.t = "object"
  /\ \A f \in {"name", "description", "package", "version"} : Get(item, f).t = "string"
  /\ ComponentStyleSchema(Get(item, "style"))
  /\ OptionalStrings(Get(item, "tags"))

\* ListComponentsResponseSchema.safeParse(response).success
ListComponentsResponseSchema(response) ==
  /\ response.t = "object"
  /\ IsArray(Get(response, "items"))
  /\ \A i \in 1..Len(Get(response, "items").v) :
        ComponentListItemSchema(Get(response, "items").v[i])
  /\ Get(response, "total").t \in {"undefined", "number"}

ComponentPropSchema(prop) ==
  /\ prop.t = "object"
  /\ Get(prop, "name").t = "string"
  /\ Get(prop, "type").t = "string"
  /\ Get(prop, "required").t = "boolean"
  /\ OptionalString(Get(prop, "description"))

ComponentVariantSchema(variant) ==
  /\ variant.t = "object"
  /\ Get(variant, "name").t = "string"
  /\ OptionalString(Get(variant, "description"))
  /\ Get(variant, "props").t = "object"

ComponentAssetSchema(asset) ==
  /\ asset.t = "object"
  /\ Get(asset, "path").t = "string"
  /\ Get(asset, "contents").t = "string"
  /\ Get(asset, "type") \in
       {Undef} \cup {Str(t) : t \in {"scss", "css", "json", "md", "svg", "png", "jpg"}}

NormalizedComponentSpecSchema(c) ==
  /\ c.t = "object"
  /\ \A f \in {"name", "package", "version", "description", "code"} :
        Get(c, f).t = "string"
  /\ Get(c, "language") \in {Str("tsx"), Str("jsx")}
  /\ ComponentStyleSchema(Get(c, "style"))
  /\ IsArray(Get(c, "props"))
  /\ \A i \in 1..Len(Get(c, "props").v) : ComponentPropSchema(Get(c, "props").v[i])
  /\ IsArray(Get(c, "variants"))
  /\ \A i \in 1..Len(Get(c, "variants").v) :
        ComponentVariantSchema(Get(c, "variants").v[i])
  /\ IsArray(Get(c, "assets"))
  /\ \A i \in 1..Len(Get(c, "assets").v) : ComponentAssetSchema(Get(c, "assets").v[i])
  /\ OptionalStrings(Get(c, "tags"))
  /\ OptionalStrings(Get(c, "dependencies"))

\* GetComponentResponseSchema.safeParse(response).success
GetComponentResponseSchema(response) ==
  /\ response.t = "object"
  /\ NormalizedComponentSpecSchema(Get(response, "component"))

\* parsed.data of ListComponentsResponseSchema: the keys no schema names are
\* stripped
ListComponentsResponseData(response) ==
  LET Style(style) == IF style = Undef THEN Undef ELSE Strip(style, <<"type", "entry">>)
      Item(item) ==
        ObjAssign(Strip(item, <<"name", "description", "package", "version">>),
                  ObjOf(<< <<"style", Style(Get(item, "style"))>>,
                           <<"tags", Get(item, "tags")>> >>))
      items == Get(response, "items").v
  IN  ObjOf(<< <<"items", Arr([i \in 1..Len(items) |-> Item(items[i])])>>,
               <<"total", Get(response, "total")>> >>)

\* parsed.data of GetComponentResponseSchema
GetComponentResponseData(response) ==
  LET c == Get(response, "component")
      Style(style) == IF style = Undef THEN Undef ELSE Strip(style, <<"type", "entry">>)
      Each(list, keys) == Arr([i \in 1..Len(list.v) |-> Strip(list.v[i], keys)])
  IN  ObjOf(<< <<"component",
        ObjOf(<< <<"name", Get(c, "name")>>,
                 <<"package", Get(c, "package")>>,
                 <<"version", Get(c, "version")>>,
                 <<"description", Get(c, "description")>>,
                 <<"language", Get(c, "language")>>,
                 <<"style", Style(Get(c, "style"))>>,
                 <<"props", Each(Get(c, "props"),
                                 <<"name", "type", "required", "default", "description">>)>>,
                 <<"variants", Each(Get(c, "variants"), <<"name", "description", "props">>)>>,
                 <<"code", Get(c, "code")>>,
                 <<"assets", Each(Get(c, "assets"), <<"path", "contents", "type">>)>>,
                 <<"tags", Get(c, "tags")>>,
                 <<"dependencies", Get(c, "dependencies")>> >>)>> >>)

\* the catch block of listComponents and getComponent rethrows an
\* XMCPClientError; this is what it throws for any other error
RequestFailed == XMCPClientError("REQUEST_FAILED")

\* listComponents once makeRequest has resolved with response
listComponentsResponse(response) ==
  IF ListComponentsResponseSchema(response)
  THEN Ok(ListComponentsResponseData(response))
  ELSE IF IsArray(response)
       THEN Ok([items |-> normalizeComponentList(response.v),
                total |-> NumOf(Len(response.v))])
  ELSE IF Nullish(response) THEN Fail(RequestFailed)
  ELSE IF Truthy(Get(response, "components")) \/ Truthy(Get(response, "items"))
       THEN LET items == OrElse(Get(response, "components"), Get(response, "items"))
                itemsArray == IF IsArray(items) THEN items.v ELSE <<>>
            IN  Ok([items |-> normalizeComponentList(itemsArray),
                    total |-> NumOf(Len(itemsArray))])
  ELSE Fail(XMCPClientError("INVALID_RESPONSE"))

\* getComponent once makeRequest has resolved with response
getComponentResponse(response) ==
  LET Normalize(componentData) ==
        IF normalizeComponentSpec(componentData).ok
        THEN Ok([component |-> normalizeComponentSpec(componentData).value])
        ELSE Fail(RequestFailed)
  IN  IF GetComponentResponseSchema(response)
      THEN Ok(GetComponentResponseData(response))
      ELSE IF Nullish(response) THEN Fail(RequestFailed)
      ELSE IF Truthy(Get(response, "component")) \/ Truthy(Get(response, "data"))
           THEN Normalize(OrElse(Get(response, "component"), Get(response, "data")))
      ELSE IF Truthy(Get(response, "name")) THEN Normalize(response)
      ELSE Fail(XMCPClientError("INVALID_RESPONSE"))

\* the request as the method sees it: listComponents(request = {})
Argument(method, request) ==
  IF method = "listComponents" /\ request = Undef THEN EmptyObj ELSE request

\* Schema.parse(request) of the method does not throw
ValidRequest(method, request) ==
  IF method = "listComponents"
  THEN ListComponentsRequestSchema(Argument(method, request))
  ELSE GetComponentRequestSchema(Argument(method, request))

\* Variant of the start of a call that never looks at config.enabled: C26
\* does not hold of it.
Begin_IgnoringEnabled(method, request, cfg) ==
  IF ~ValidRequest(method, request)
  THEN [phase |-> "done", timer |-> "none", normalized |-> Fail(ZodError)]
  ELSE [phase |-> "fetching", timer |-> "armed", normalized |-> NoResult]

\* a call up to its first await: Schema.parse(request) outside the try, then
\* makeRequest's check of config.enabled, then setTimeout and fetch
Begin(method, request, cfg) ==
  IF ~ValidRequest(method, request)
  THEN [phase |-> "done", timer |-> "none", normalized |-> Fail(ZodError)]
  ELSE IF ~cfg.enabled
       THEN [phase |-> "done", timer |-> "none",
             normalized |-> Fail(XMCPClientError("DISABLED"))]
  ELSE [phase |-> "fetching", timer |-> "armed", normalized |-> NoResult]

\* response.ok
ResponseOk(s) == s \in 200..299

\* the error makeRequest throws for a response that is not ok
StatusError(s) ==
  XMCPClientError(IF s = 404 THEN "NOT_FOUND" ELSE "REQUEST_FAILED")

\* the catch block of makeRequest for an Error with this name
RequestError(name) ==
  XMCPClientError(IF name = "AbortError" THEN "TIMEOUT" ELSE "NETWORK_ERROR")

(***************************************************************************)
(* What the provider may send.                                             *)
(***************************************************************************)
Statuses == {200, 201, 404, 500, 503}

\* a body that is not JSON: response.json() rejects with a SyntaxError
NotJson == [received |-> TRUE, parses |-> FALSE]

JsonBody(doc) == [received |-> TRUE, parses |-> TRUE, json |-> doc]

\* a list item that conforms to ComponentListItemSchema, with one more key
ConformingItem ==
  Obj(<<"name", "description", "package", "version", "tags", "code">>,
      [ name        |-> Str("Button"),
        description |-> Str("A button"),
        package     |-> Str("@ui/core"),
        version     |-> Str("2.0.0"),
        tags        |-> Arr(<<Str("form")>>),
        code        |-> Str("export const Button") ])

\* a component that conforms to NormalizedComponentSpecSchema, with one more key
ConformingComponent ==
  Obj(<<"name", "internal", "package", "version", "description", "language",
        "props", "variants", "code", "assets">>,
      [ name        |-> Str("Button"),
        internal    |-> Bool(TRUE),
        package     |-> Str("@ui/core"),
        version     |-> Str("2.0.0"),
        description |-> Str("A button"),
        language    |-> Str("tsx"),
        props       |-> Arr(<<Obj(<<"name", "type", "required", "since">>,
                                  [ name     |-> Str("size"),
                                    type     |-> Str("string"),
                                    required |-> Bool(FALSE),
                                    since    |-> Str("2.0.0") ])>>),
        variants    |-> Arr(<<>>),
        code        |-> Str("export const Button"),
        assets      |-> Arr(<<>>) ])

Wrapped(key, payload) == Obj(<<key>>, [k \in {key} |-> payload])

\* the texts an MCP envelope carries, and the JSON each of them spells
CardListText == "[{\"name\":\"Card\"}]"

CardText == "{\"name\":\"Card\"}"

CardOnly == Obj(<<"name">>, [name |-> Str("Card")])

\* the documented MCP envelope {result:{content:[{type:"text", text}]}}
Envelope(text) ==
  Wrapped("result",
          Wrapped("content",
                  Arr(<<Obj(<<"type", "text">>,
                            [type |-> Str("text"), text |-> Str(text)])>>)))

ResponseDocuments ==
  { Obj(<<"items", "total">>, [items |-> Arr(<<ConformingItem>>), total |-> Num("1")]),
    Wrapped("items", Arr(<<RawCard, RawNoName>>)),
    Wrapped("components", Arr(<<RawButton>>)),
    Wrapped("items", Str("none")),
    Arr(<<RawButton, RawNumName>>),
    Wrapped("component", ConformingComponent),
    Wrapped("component", RawButton),
    Wrapped("component", RawNoName),
    Wrapped("data", RawCard),
    RawButton,
    RawNullVariant,
    Envelope(CardListText),
    Envelope(CardText),
    EmptyObj,
    Null,
    Str("ok") }

Bodies == {NotJson} \cup {JsonBody(doc) : doc \in ResponseDocuments}

ClientRequests ==
  { Undef,
    EmptyObj,
    Obj(<<"query">>, [query |-> Str("button")]),
    Obj(<<"tags">>, [tags |-> Str("form")]),
    Obj(<<"name">>, [name |-> Str("Button")]),
    Obj(<<"name", "variant">>, [name |-> Str("Button"), variant |-> Str("primary")]),
    Obj(<<"name">>, [name |-> Num("42")]) }

\* what updateConfig may be given
PartialConfigs == {[enabled |-> TRUE], [enabled |-> FALSE], [timeout |-> 50]}

(***************************************************************************)
(* The steps of a call.                                                    *)
(***************************************************************************)
\* new XMCPClient({ enabled }), no call made yet
ClientInit ==
  /\ StoreInit
  /\ NormIdle
  /\ config \in {[enabled |-> e] @@ DEFAULT_XMCP_CONFIG : e \in BOOLEAN}
  /\ phase = "idle"
  /\ timer = "none"
  /\ status = 0
  /\ body = NoBody

\* updateConfig(partial)
UpdateConfig(partial) ==
  /\ config' = partial @@ config
  /\ UNCHANGED << storeVars, normVars, phase, timer, status, body >>

\* client.listComponents(request) or client.getComponent(request), up to the
\* first await or to the throw before it
Call(method, request) ==
  /\ phase \in {"idle", "done"}
  /\ call' = method
  /\ rawItem' = request
  /\ phase' = Begin(method, request, config).phase
  /\ timer' = Begin(method, request, config).timer
  /\ normalized' = Begin(method, request, config).normalized
  /\ status' = 0
  /\ body' = NoBody
  /\ UNCHANGED << storeVars, rawList, config >>

\* fetch resolves with the response headers; clearTimeout(timeoutId)
HeadersArrive(s) ==
  /\ phase = "fetching"
  /\ status' = s
  /\ timer' = "cleared"
  /\ phase' = IF ResponseOk(s) THEN "reading" ELSE "readingError"
  /\ UNCHANGED << storeVars, normVars, config, body >>

\* fetch rejects below HTTP (DNS, connection refused or reset)
NetworkFails ==
  /\ phase = "fetching"
  /\ timer' = "cleared"
  /\ phase' = "done"
  /\ normalized' = Fail(RequestError("TypeError"))
  /\ UNCHANGED << storeVars, call, rawItem, rawList, config, status, body >>

\* the timeout callback runs: controller.abort(), fetch rejects with AbortError
TimerFires ==
  /\ timer = "armed"
  /\ timer' = "fired"
  /\ phase' = "done"
  /\ normalized' = Fail(RequestError("AbortError"))
  /\ UNCHANGED << storeVars, call, rawItem, rawList, config, status, body >>

\* response.json() settles for a response that is ok, and the method goes on
BodyArrives(b) ==
  /\ phase = "reading"
  /\ body' = b
  /\ phase' = "done"
  /\ normalized' =
       IF ~b.parses THEN Fail(RequestError("SyntaxError"))
       ELSE IF call = "listComponents" THEN listComponentsResponse(b.json)
       ELSE getComponentResponse(b.json)
  /\ UNCHANGED << storeVars, call, rawItem, rawList, config, timer, status >>

\* the connection breaks while the body of an ok response is read
BodyFails ==
  /\ phase = "reading"
  /\ phase' = "done"
  /\ normalized' = Fail(RequestError("TypeError"))
  /\ UNCHANGED << storeVars, call, rawItem, rawList, config, timer, status, body >>

\* response.json() settles, either way, for a response that is not ok
ErrorBodySettles ==
  /\ phase = "readingError"
  /\ phase' = "done"
  /\ normalized' = Fail(StatusError(status))
  /\ UNCHANGED << storeVars, call, rawItem, rawList, config, timer, status, body >>

ClientNext ==
  \/ \E partial \in PartialConfigs : UpdateConfig(partial)
  \/ \E method \in {"listComponents", "getComponent"}, request \in ClientRequests :
        Call(method, request)
  \/ \E s \in Statuses : HeadersArrive(s)
  \/ NetworkFails
  \/ TimerFires
  \/ \E b \in Bodies : BodyArrives(b)
  \/ BodyFails
  \/ ErrorBodySettles

SpecClient == ClientInit /\ [][ClientNext]_vars

\* the event loop runs a timeout callback that is due; nothing obliges the
\* provider to send anything
SpecClientLive == SpecClient /\ WF_vars(TimerFires)

(***************************************************************************)
(* Lookup by name, claims C21 and C22, under SpecQuery.                    *)
(***************************************************************************)
\* the name the request asks for
RequestedName == Get(rawItem, "name").v

Lower(name) == toLowerCase(Spelling(name))

\* the positions of the components that have the requested name, case ignored
Hits ==
  {i \in 1..Len(QueryCatalog.components) :
     Lower(QueryCatalog.components[i].name) = Lower(RequestedName)}

\* the positions of the list items whose name contains the requested name or
\* is contained in it, case ignored
NearMisses ==
  {i \in 1..Len(QueryCatalog.listItems) :
     \/ includes(Lower(QueryCatalog.listItems[i].name), Lower(RequestedName))
     \/ includes(Lower(RequestedName), Lower(QueryCatalog.listItems[i].name))}

\* the k-th near miss in catalog order, counting from 1
KthNearMiss(k) ==
  CHOOSE i \in NearMisses : Cardinality({j \in NearMisses : j < i}) = k - 1

\* C21: lookup by name: fakeGetComponent returns a component whose name is
\* the requested one, case ignored; when there is none it fails with the
\* not-found error, which carries the names of the first near misses in
\* catalog order, three at most.
C21_LookupByName ==
  Answered("fakeGetComponent") =>
    IF Hits # {}
    THEN /\ normalized.ok
         /\ \E i \in Hits : normalized.value.component = QueryCatalog.components[i]
    ELSE /\ ~normalized.ok
         /\ normalized.error.message = "Component not found"
         /\ normalized.error.name = RequestedName
         /\ Len(normalized.error.suggestions) <= 3
         /\ Len(normalized.error.suggestions) =
              (IF Cardinality(NearMisses) < 3 THEN Cardinality(NearMisses) ELSE 3)
         /\ \A k \in 1..Len(normalized.error.suggestions) :
              normalized.error.suggestions[k] = QueryCatalog.listItems[KthNearMiss(k)].name

\* a lookup that failed with four near misses in the catalog, of which the
\* first three are suggested
C21_Witness ==
  /\ Answered("fakeGetComponent")
  /\ ~normalized.ok
  /\ Cardinality(NearMisses) = 4
  /\ Len(normalized.error.suggestions) = 3

\* the catalog holds a component named "Button" and the request asks for "Buton"
ButonAgainstButton ==
  /\ Answered("fakeGetComponent")
  /\ RequestedName = "Buton"
  /\ \E i \in 1..Len(QueryCatalog.components) : QueryCatalog.components[i].name = "Button"

Begins ==
  /\ phase \in {"idle", "done"}
  /\ phase' \in {"fetching", "done"}
  /\ config' = config

Disabled == Fail(XMCPClientError("DISABLED"))

Taxonomy ==
  { "TIMEOUT", "NETWORK_ERROR", "REQUEST_FAILED", "NOT_FOUND",
    "INVALID_RESPONSE", "DISABLED", "INVALID_ARGUMENT" }

\* the call failed below HTTP: fetch rejected, or the body broke off
FailedBelowHttp ==
  /\ phase = "done"
  /\ timer = "cleared"
  /\ body = NoBody
  /\ status = 0 \/ ResponseOk(status)

\* HTTP statuses and failures below HTTP map to NOT_FOUND, REQUEST_FAILED and
\* NETWORK_ERROR
FailuresMapped ==
  phase = "done" =>
    /\ status = 404 => normalized = Fail(XMCPClientError("NOT_FOUND"))
    /\ (status # 0 /\ status # 404 /\ ~ResponseOk(status))
         => normalized = Fail(XMCPClientError("REQUEST_FAILED"))
    /\ FailedBelowHttp => normalized = Fail(XMCPClientError("NETWORK_ERROR"))

\* C24: remote failure mapping: status 404 fails the call with NotFound, any
\* other non-2xx status with RequestFailed, a failure below HTTP with
\* NetworkError, and every error a call surfaces carries a code of the
\* taxonomy.
C24_RemoteFailureMapping ==
  /\ FailuresMapped
  /\ (phase = "done" /\ ~normalized.ok)
       => /\ "code" \in DOMAIN normalized.error
          /\ normalized.error.code \in Taxonomy

InvalidResponse == Fail(XMCPClientError("INVALID_RESPONSE"))

\* the body is the MCP envelope {result:{content:[{text}]}}
IsEnvelope(doc) ==
  LET content == Get(Get(doc, "result"), "content")
  IN  /\ IsArray(content)
      /\ Len(content.v) > 0
      /\ Get(content.v[1], "text").t = "string"

\* JSON.parse of the text an envelope carries
Decoded(text) ==
  CASE text = CardListText -> Arr(<<CardOnly>>)
    [] text = CardText     -> CardOnly

\* the payload an envelope wraps
Unwrapped(doc) == Decoded(Get(Get(Get(doc, "result"), "content").v[1], "text").v)

\* how the method treats a payload that came as a direct object
Direct(method, payload) ==
  IF method = "listComponents" THEN listComponentsResponse(payload)
  ELSE getComponentResponse(payload)

\* the direct shapes of the method: {components} and {items} for a list,
\* {component} and a bare component for a component
DirectShape(method, doc) ==
  IF method = "listComponents"
  THEN Truthy(Get(doc, "components")) \/ Truthy(Get(doc, "items"))
  ELSE Truthy(Get(doc, "component")) \/ Truthy(Get(doc, "name"))

\* the body has none of the shapes of either method, nor one of the two more
\* (a bare array, {data}) that the client accepts
NoShape(doc) ==
  /\ ~IsEnvelope(doc)
  /\ ~DirectShape("listComponents", doc)
  /\ ~DirectShape("getComponent", doc)
  /\ ~IsArray(doc)
  /\ ~Truthy(Get(doc, "data"))

\* the component a direct shape of getComponent carries
Carried(doc) ==
  IF Truthy(Get(doc, "component")) THEN Get(doc, "component") ELSE doc

\* C25: response-shape tolerance: for a 2xx response the client tries the MCP
\* envelope first and then the direct shapes, returns the decoded payload for
\* any of them, and fails with InvalidResponse for a body that has none of
\* the shapes or that is not parseable JSON.
C25_ResponseShapeTolerance ==
  (phase = "done" /\ body # NoBody) =>
    IF ~body.parses THEN normalized = InvalidResponse
    ELSE /\ IsEnvelope(body.json) => normalized = Direct(call, Unwrapped(body.json))
         /\ (~IsEnvelope(body.json) /\ DirectShape(call, body.json))
              => \/ normalized.ok
                 \/ /\ call = "getComponent"
                    /\ ~normalizeComponentSpec(Carried(body.json)).ok
         /\ NoShape(body.json) => normalized = InvalidResponse

\* C23: remote call deadline: every call terminates; a call whose complete
\* response has not come by the deadline is aborted and fails with Timeout,
\* also when the headers came and the body never ends.
C23_RemoteCallDeadline ==
  (phase \in {"fetching", "reading", "readingError"}) ~> (phase = "done")

====
